---------------------------- MODULE Spec2Model ----------------------------
(***************************************************************************)
(* imapsync-go: the resilient IMAP session (internal/client), the sync     *)
(* planner and the chunked executor (ActionSync).                          *)
(*                                                                         *)
(* Two specifications share this module:                                   *)
(*   Spec      one Client (Session) used by several callers: safeCall,     *)
(*             Reconnect, the mutex c.mu and the wall clock;               *)
(*   SyncSpec  ActionSync run twice back to back on two IMAP accounts:     *)
(*             buildSyncPlan, the confirmation, folder pre-creation and    *)
(*             the chunks of upload tasks.                                 *)
(* Times are in seconds.                                                   *)
(***************************************************************************)
EXTENDS Integers, Sequences, FiniteSets, TLC

\* ------------------------------------------------------------------ bounds
\* Client methods invoked on the one Client, over all callers.
MaxVerbs == 3
\* Mailboxes in the server's answer to one LIST "" "".
MaxList == 2
\* Operations on a Client after New.
MaxOps == 3
\* Commands that fail while folders are created.
MaxFaults == 2
\* The workers option ranges over -MaxFlag .. MaxFlag.
MaxFlag == 12
\* Active plans of the run a configuration is used for.
MaxActive == 3
\* Messages of the source folder whose plan is built.
MaxBox == 3
\* Characters of a folder path of a mapping.
MaxPath == 3
\* Mailboxes a server returns for one LIST command.
MaxMailboxes == 12

\* ------------------------------------------------------- program constants
initialBackoff == 2
reconnectInterval == 10
maxReconnectAttempts == 5
\* the literal of "c.backoff = 2 * time.Second" in Reconnect
resetBackoff == 2

\* Goroutines that use the same Client: g1 invokes any method and sees any
\* outcome; g2, the goroutine that runs beside it, invokes one method of each
\* kind (through safeCall, direct) and sees one outcome of each class.
Callers == {"g1", "g2"}
\* c.mu unlocked
Free == "free"

\* errors an IMAP command or a dial can end with; "nil" is success
ConnErrors == {"EOF", "ErrClosed", "netError"}
ServerErrors == {"NO", "BAD"}
Outcomes == {"nil"} \cup ConnErrors \cup ServerErrors
\* connectAndLogin fails in the dial (a net.Error) or in LOGIN (NO)
DialErrors == {"netError", "NO"}

\* The Client methods, by the go-imap command they issue first.
\* Create is the c.Create of CreateMailbox, mailboxExists its LIST.
Verbs == {"SafeSelect", "SafeSearch", "AppendMessage", "Create",
          "FetchMessageIDs", "FetchMessagesByIDs", "mailboxExists",
          "getSubfolders"}

VerbsOf(c) == IF c = "g1" THEN Verbs ELSE {"AppendMessage", "FetchMessageIDs"}
OutcomesOf(c) == IF c = "g1" THEN Outcomes ELSE {"nil", "EOF", "NO"}

VARIABLES
  sinceReconnect, \* time.Now() - c.lastReconnect, followed up to reconnectInterval
  sinceSuccess,   \* time since the last successful reconnection, likewise
  lastGap,        \* time between the last two successful reconnections, likewise
  gen,            \* connections built by Reconnect; c.Client is the gen-th
  connUp,         \* whether the connection of c.Client is still usable
  mu,             \* holder of c.mu, or Free
  backoff,        \* c.backoff
  issued,         \* Client methods invoked so far
  cs              \* per caller: position and locals

VARIABLES
  cfg,            \* the run's inputs: mappings, workers, quiet, autoConfirm
  srcBox,         \* source account: folder -> its messages (raw Message-ID headers)
  dstBox,         \* destination account, likewise
  dstExists,      \* folders that exist on the destination account
  run,            \* which of the back-to-back runs this is
  phase,          \* where ActionSync is
  cancelled,      \* ctx.Err() # nil
  idx,            \* buildSyncPlan: index of the next mapping
  plans,          \* summary.Plans, which are the activePlans as well
  toCreate,       \* pre-creation: foldersToCreate not yet visited
  failedCount,    \* pre-creation: failedCount
  chunkStart,     \* executor: chunkStart
  tasks,          \* executor: the goroutines of the current chunk
  totalSynced,    \* executor: totalSynced
  totalErrors,    \* executor: totalErrors
  result,         \* what ActionSync returned
  hist,           \* what the run did, kept for the properties
  live            \* the connections that are logged in

VARIABLES
  opened,         \* New: "dialing", "listing", "open" or "failed"
  listAnswer,     \* New: the delimiters of the server's answer to LIST "" ""
  delimiter,      \* c.delimiter
  delimWrites,    \* assignments to c.delimiter so far
  opCount,        \* operations on the opened Client so far
  lastDelim       \* what the last getDelimiter or GetDelimiter returned

VARIABLES
  folders,        \* CreateMailbox: the mailboxes of the destination server
  folders0,       \* the mailboxes it had before the first CreateMailbox
  serverDelim,    \* the hierarchy delimiter of the destination server
  heldLocks,      \* folderLocks: the keys of the mutexes that are locked
  tk,             \* per task: where its CreateMailbox is, and its locals
  creates,        \* path -> CREATE commands sent for it so far
  createOKs,      \* path -> CREATE commands the server answered OK
  faults          \* commands that failed so far

VARIABLES
  workersFlag,    \* config.New: the value of the workers option
  cfgWorkers,     \* cfg.Workers
  nActive,        \* len(activePlans) of the run made with this cfg
  loopAt,         \* chunkStart of the chunk loop
  cfgPc,          \* "flag", "cfg" (config.New returned), "invalid", "loop", "done", "panic"
  required,       \* the six required fields of the configuration file
  newErr          \* the error config.New returned, "nil" for none

VARIABLES
  srcMsgs,        \* the source folder: Message-ID header of each message, by UID
  dstMsgs,        \* the destination folder, likewise
  fetchPc,        \* "ids", "diff", "bodies", "append", "done", "skipped", "failed"
  srcMessageIDs,  \* buildSyncPlan: srcMessageIDs
  dstMessageIDs,  \* buildSyncPlan: dstMessageIDs
  newIDs,         \* buildSyncPlan: newIDs
  messagesToSync, \* plan.MessagesToSync
  newMessages,    \* plan.NewMessages
  totalNew,       \* summary.TotalNew
  appended,       \* the messages handed to AppendMessage so far, in order
  stored,         \* for each of them, the copies the destination server stored
  syncedCount,    \* syncFolders: syncedCount
  errorCount      \* syncFolders: errorCount

VARIABLES
  mappings,       \* ActionSync: the mappings of the configuration
  srcDelimiter,   \* ActionSync: srcDelimiter
  dstDelimiter,   \* ActionSync: dstDelimiter
  needsFix,       \* ActionSync: needsFix
  shouldFix,      \* ActionSync: shouldFix
  valid,          \* what a call of validateFolderPath returned, "none" before
  rewritten,      \* a path rewritten to "." and back to "/", "none" before
  pathPc          \* "start", "called", "rewritten", "ask", "fixed", "kept", "returned"

VARIABLES
  expanded,       \* expandMappingsWithSubfolders: expanded
  expandAt,       \* index of the mapping the loop is at
  listed,         \* what getSubfolders gave for each mapping so far
  expandPc        \* "loop", "done", "canceled"

VARIABLES
  listFor,        \* "exists" (mailboxExists) or "delimiter" (getDelimiter)
  listCount,      \* the mailboxes the server returns for the LIST command
  listSent,       \* how many of them the goroutine has sent on the channel
  mailboxes,      \* how many are in the channel's buffer
  listGo,         \* the goroutine: "sending", "finished"
  listDone,       \* the done channel: "empty", "nil", "error"
  listCaller      \* the caller: "reading", "waiting" (on done), "returned"

sessVars == <<sinceReconnect, sinceSuccess, lastGap, gen, connUp, mu, backoff, issued, cs>>
syncVars == <<cfg, srcBox, dstBox, dstExists, run, phase, cancelled, idx, plans, toCreate,
              failedCount, chunkStart, tasks, totalSynced, totalErrors, result, hist, live>>
openVars == <<opened, listAnswer, delimiter, delimWrites, opCount, lastDelim>>
createVars == <<folders, folders0, serverDelim, heldLocks, tk, creates, createOKs, faults>>
configVars == <<workersFlag, cfgWorkers, nActive, loopAt, cfgPc, required, newErr>>
fetchVars == <<srcMsgs, dstMsgs, fetchPc, srcMessageIDs, dstMessageIDs, newIDs,
               messagesToSync, newMessages, totalNew, appended, stored, syncedCount,
               errorCount>>
pathVars == <<mappings, srcDelimiter, dstDelimiter, needsFix, shouldFix, valid, rewritten, pathPc>>
expandVars == <<expanded, expandAt, listed, expandPc>>
listVars == <<listFor, listCount, listSent, mailboxes, listGo, listDone, listCaller>>
vars == <<sessVars, syncVars, openVars, createVars, configVars, fetchVars, pathVars, expandVars,
          listVars>>

\* what the actions of one part leave alone
nonSess == <<syncVars, openVars, createVars, configVars, fetchVars, pathVars, expandVars, listVars>>
nonSync == <<sessVars, openVars, createVars, configVars, fetchVars, pathVars, expandVars, listVars>>
nonOpen == <<sessVars, syncVars, createVars, configVars, fetchVars, pathVars, expandVars, listVars>>
nonCreate == <<sessVars, syncVars, openVars, configVars, fetchVars, pathVars, expandVars, listVars>>
nonConfig == <<sessVars, syncVars, openVars, createVars, fetchVars, pathVars, expandVars, listVars>>
nonFetch == <<sessVars, syncVars, openVars, createVars, configVars, pathVars, expandVars, listVars>>
nonPath == <<sessVars, syncVars, openVars, createVars, configVars, fetchVars, expandVars, listVars>>
nonExpand == <<sessVars, syncVars, openVars, createVars, configVars, fetchVars, listVars>>
nonList == <<sessVars, syncVars, openVars, createVars, configVars, fetchVars, pathVars, expandVars>>

\* ------------------------------------------------------------ the Session

\* isConnError: io.EOF, net.ErrClosed or a net.Error
\* a safeCall that took every error for a transport error
isConnErrorAnyError(err) == err # "nil"

isConnError(err) == err \in ConnErrors

\* The methods that run their command through safeCall.
Wrapped(v) == v \in {"SafeSelect", "SafeSearch", "AppendMessage", "Create"}

\* A duration, followed up to reconnectInterval: the code compares
\* sinceLast with reconnectDur only.
Upto(d) == IF d > reconnectInterval THEN reconnectInterval ELSE d

\* Reconnect's gate: "if sinceLast < c.reconnectDur { wait := ... }", 0: no sleep
\* a Reconnect that waited for the backoff instead of the interval
GateWaitShort(since) == IF since < initialBackoff THEN initialBackoff - since ELSE 0

GateWait(since) ==
  IF since < reconnectInterval THEN reconnectInterval - since ELSE 0

\* "delay *= 2"
\* a backoff that grew by a fixed step
NextDelayLinear(d) == d + initialBackoff

NextDelay(d) == d * 2

\* the loop condition "i <= maxReconnectAttempts"
MoreAttempts(i) == i <= maxReconnectAttempts

\* fmt.Errorf("failed to reconnect after retries: %w", err)
ReconnectError(err) == <<"failed to reconnect after retries", err>>

\* c.mu.Lock() can proceed
\* a Reconnect that returned without c.mu.Unlock()
AfterUnlockHeld(c) == c

\* "defer c.mu.Unlock()": the mutex when Reconnect, called by c, has returned
AfterUnlock(c) == Free

\* a mutex that let everybody in
CanLockAlways == TRUE

CanLock == mu = Free

\* safeCall: "if isConnError(err) { c.Reconnect() ... }" after a failed fn();
\* a method that calls go-imap directly never gets there
NeedsReconnect(v, e) == Wrapped(v) /\ e # "nil" /\ isConnError(e)

\* a safeCall that went back to Reconnect when its second fn() failed too
AfterSecondRetrying(r, e) ==
  IF e \in ConnErrors
    THEN [r EXCEPT !.second = e, !.pc = "lock", !.recs = @ + 1]
    ELSE [r EXCEPT !.second = e, !.pc = "done", !.result = e]

\* safeCall: "return fn()" after a successful Reconnect, on the caller's record
AfterSecond(r, e) == [r EXCEPT !.second = e, !.pc = "done", !.result = e]

\* what a command can end with on connection g of the caller
CommandOutcomes(g) == IF g = gen /\ connUp THEN Outcomes ELSE ConnErrors

IdleCaller ==
  [pc |-> "idle", verb |-> "none", conn |-> 0,
   first |-> "none", second |-> "none", result |-> "none", rec |-> "none",
   inv |-> 0, recs |-> 0, dials |-> 0, slept |-> <<>>, wait |-> 0,
   delay |-> 0, i |-> 0, err |-> "none", superseded |-> 0]

SessInit ==
  /\ sinceReconnect = reconnectInterval
  /\ sinceSuccess = reconnectInterval
  /\ lastGap = reconnectInterval
  /\ gen = 0
  /\ connUp = TRUE
  /\ mu = Free
  /\ backoff = initialBackoff
  /\ issued = 0
  /\ cs = [c \in Callers |-> IdleCaller]

InFlight(c) == cs[c].pc \in {"fn1", "fn2"}
InReconnect(c) == cs[c].pc \in {"gate", "teardown", "attempt", "backoff"}
\* between the Logout of the old connection and "c.Client = client"
Replacing(c) == cs[c].pc \in {"attempt", "backoff"}

\* d seconds pass
Elapse(d) ==
  /\ sinceReconnect' = Upto(sinceReconnect + d)
  /\ sinceSuccess' = Upto(sinceSuccess + d)

\* A caller invokes a Client method: fn() starts on the current c.Client.
Start(c, v) ==
  /\ cs[c].pc \in {"idle", "done"}
  /\ v \in VerbsOf(c)
  /\ issued < MaxVerbs
  /\ issued' = issued + 1
  /\ cs' = [cs EXCEPT ![c] = [IdleCaller EXCEPT !.pc = "fn1", !.verb = v,
                                 !.conn = gen, !.inv = 1]]
  /\ UNCHANGED <<sinceReconnect, sinceSuccess, lastGap, gen, connUp, mu, backoff>>
  /\ UNCHANGED nonSess

\* safeCall, from the return of the first fn() to the decision to reconnect;
\* a method that does not use safeCall returns what its command returned.
Complete1(c, e) ==
  /\ cs[c].pc = "fn1"
  /\ e \in CommandOutcomes(cs[c].conn) \cap OutcomesOf(c)
  /\ connUp' = IF e \in ConnErrors /\ cs[c].conn = gen THEN FALSE ELSE connUp
  /\ cs' = [cs EXCEPT ![c] =
       IF NeedsReconnect(cs[c].verb, e)
         THEN [@ EXCEPT !.first = e, !.pc = "lock", !.recs = @ + 1]
         ELSE [@ EXCEPT !.first = e, !.pc = "done", !.result = e]]
  /\ UNCHANGED <<sinceReconnect, sinceSuccess, lastGap, gen, mu, backoff, issued>>
  /\ UNCHANGED nonSess

\* the times that can have passed when Reconnect reads the clock: none, some
\* of the interval, all of it
Elapsed == {0, 1, 4, 9, reconnectInterval}

\* Reconnect: c.mu.Lock(), now := time.Now(), the interval check; d seconds
\* have passed since the clock was last read or slept on
Lock(c, d) ==
  /\ cs[c].pc = "lock"
  /\ CanLock
  /\ mu' = c
  /\ Elapse(d)
  /\ cs' = [cs EXCEPT ![c] = [@ EXCEPT !.pc = "gate",
                                 !.wait = GateWait(Upto(sinceReconnect + d))]]
  /\ UNCHANGED <<lastGap, gen, connUp, backoff, issued>>
  /\ UNCHANGED nonSess

\* Reconnect: time.Sleep(wait) when the interval has not passed
Gate(c) ==
  /\ cs[c].pc = "gate"
  /\ Elapse(cs[c].wait)
  /\ cs' = [cs EXCEPT ![c] = [@ EXCEPT !.pc = "teardown"]]
  /\ UNCHANGED <<lastGap, gen, connUp, mu, backoff, issued>>
  /\ UNCHANGED nonSess

\* Reconnect: c.Logout() of the old connection, delay := c.backoff, i := 1
Teardown(c) ==
  /\ cs[c].pc = "teardown"
  /\ connUp' = FALSE
  /\ cs' = [cs EXCEPT ![c] = [@ EXCEPT !.pc = "attempt", !.delay = backoff, !.i = 1]]
  /\ UNCHANGED <<sinceReconnect, sinceSuccess, lastGap, gen, mu, backoff, issued>>
  /\ UNCHANGED nonSess

\* Reconnect: one connectAndLogin that succeeds; safeCall then calls fn() again
AttemptOk(c) ==
  /\ cs[c].pc = "attempt"
  /\ MoreAttempts(cs[c].i)
  /\ gen' = gen + 1
  /\ connUp' = TRUE
  /\ sinceReconnect' = 0
  /\ backoff' = resetBackoff
  /\ mu' = AfterUnlock(c)
  /\ lastGap' = sinceSuccess
  /\ sinceSuccess' = 0
  /\ cs' = [d \in Callers |->
       IF d = c
         THEN [cs[c] EXCEPT !.pc = "fn2", !.rec = "ok", !.conn = gen + 1,
                             !.inv = @ + 1, !.dials = 0, !.slept = <<>>,
                             !.wait = 0, !.delay = 0, !.i = 0, !.err = "none"]
         ELSE [cs[d] EXCEPT !.superseded = IF cs[d].pc = "lock" THEN gen + 1 ELSE @]]
  /\ UNCHANGED issued
  /\ UNCHANGED nonSess

\* Reconnect: one connectAndLogin that fails
AttemptFail(c, e) ==
  /\ cs[c].pc = "attempt"
  /\ MoreAttempts(cs[c].i)
  /\ e \in DialErrors
  /\ cs' = [cs EXCEPT ![c] = [@ EXCEPT !.pc = "backoff", !.err = e, !.dials = @ + 1]]
  /\ UNCHANGED <<sinceReconnect, sinceSuccess, lastGap, gen, connUp, mu, backoff, issued>>
  /\ UNCHANGED nonSess

\* Reconnect: time.Sleep(delay), delay *= 2, i++; after the last attempt
\* c.lastReconnect = time.Now() and the error return, which safeCall passes on
Backoff(c) ==
  /\ cs[c].pc = "backoff"
  /\ IF MoreAttempts(cs[c].i + 1)
       THEN /\ cs' = [cs EXCEPT ![c] = [@ EXCEPT !.pc = "attempt",
                        !.slept = Append(@, cs[c].delay),
                        !.delay = NextDelay(@), !.i = @ + 1]]
            /\ Elapse(cs[c].delay)
            /\ UNCHANGED mu
       ELSE /\ cs' = [cs EXCEPT ![c] = [@ EXCEPT !.pc = "done",
                        !.slept = Append(@, cs[c].delay),
                        !.delay = 0, !.i = 0, !.wait = 0,
                        !.rec = "failed", !.result = ReconnectError(cs[c].err)]]
            /\ sinceReconnect' = 0
            /\ sinceSuccess' = Upto(sinceSuccess + cs[c].delay)
            /\ mu' = AfterUnlock(c)
  /\ UNCHANGED <<lastGap, gen, connUp, backoff, issued>>
  /\ UNCHANGED nonSess

\* safeCall: the second fn() returns; its result is safeCall's
Complete2(c, e) ==
  /\ cs[c].pc = "fn2"
  /\ e \in CommandOutcomes(cs[c].conn) \cap OutcomesOf(c)
  /\ connUp' = IF e \in ConnErrors /\ cs[c].conn = gen THEN FALSE ELSE connUp
  /\ cs' = [cs EXCEPT ![c] = AfterSecond(@, e)]
  /\ UNCHANGED <<sinceReconnect, sinceSuccess, lastGap, gen, mu, backoff, issued>>
  /\ UNCHANGED nonSess

SessNext ==
  \/ \E c \in Callers, v \in Verbs : Start(c, v)
  \/ \E c \in Callers, e \in Outcomes : Complete1(c, e)
  \/ \E c \in Callers, d \in Elapsed : Lock(c, d)
  \/ \E c \in Callers : Gate(c)
  \/ \E c \in Callers : Teardown(c)
  \/ \E c \in Callers : AttemptOk(c)
  \/ \E c \in Callers, e \in DialErrors : AttemptFail(c, e)
  \/ \E c \in Callers : Backoff(c)
  \/ \E c \in Callers, e \in Outcomes : Complete2(c, e)

\* ------------------------------------------------- the Session's properties

\* C4: when a verb run through safeCall fails with a transport-class error
\* and Reconnect succeeds, fn() is invoked exactly once more and safeCall
\* returns what that second invocation returned, without another Reconnect.
C4_Returned ==
  \A c \in Callers :
    cs[c].pc = "done" /\ cs[c].rec = "ok" =>
      /\ cs[c].first \in ConnErrors
      /\ cs[c].inv = 2
      /\ cs[c].recs = 1
      /\ cs[c].result = cs[c].second
\* C4: in the step in which a connectAndLogin of Reconnect succeeds,
\* lastReconnect becomes the current time, backoff the initial value, and the
\* caller goes on to its second fn().
C4_SuccessStep ==
  \A c \in Callers :
    cs[c].pc = "attempt" /\ cs'[c].pc # "attempt" /\ cs'[c].pc # "backoff" =>
      /\ sinceReconnect' = 0
      /\ backoff' = initialBackoff
      /\ cs'[c].pc = "fn2"
      /\ cs'[c].inv = 2
\* C4: a transport error, then a successful reconnect: one retry, its result
\* returned, lastReconnect = time of success, backoff = initial value.
C4_RetryOnce == []C4_Returned /\ [][C4_SuccessStep]_vars
\* a safeCall returned the server's NO of its second invocation
C4_Witness ==
  \E c \in Callers :
    cs[c].pc = "done" /\ cs[c].rec = "ok" /\ cs[c].second = "NO" /\ backoff = initialBackoff

\* C5: an error of fn() that is not io.EOF, net.ErrClosed or a net.Error is
\* returned as it is, with no Reconnect and no second fn(); neither does a
\* nil result start a Reconnect.
C5_NoRetry ==
  \A c \in Callers :
    cs[c].first \in ({"nil"} \cup ServerErrors) =>
      /\ cs[c].recs = 0
      /\ cs[c].inv = 1
      /\ cs[c].pc = "done"
      /\ cs[c].result = cs[c].first
\* a method run through safeCall returned the server's BAD
C5_Witness ==
  \E c \in Callers :
    Wrapped(cs[c].verb) /\ cs[c].pc = "done" /\ cs[c].first = "BAD" /\ cs[c].result = "BAD"

\* C6: every Client method that observes a transport-class error runs
\* Reconnect before it returns an error to its caller.
C6_EveryVerbReconnects ==
  \A c \in Callers :
    cs[c].pc = "done" /\ cs[c].first \in ConnErrors => cs[c].recs >= 1

\* 2^n
RECURSIVE Pow2(_)
Pow2(n) == IF n = 0 THEN 1 ELSE 2 * Pow2(n - 1)

C36_BackoffCapped ==
  \A c \in Callers :
    /\ Len(cs[c].slept) >= 1 => cs[c].slept[1] = 2
    /\ \A k \in 1..Len(cs[c].slept) : cs[c].slept[k] <= 10

\* C8: two successful reconnections of the Client are at least
\* reconnectInterval apart, and Reconnect tears down and dials only when at
\* least reconnectInterval has passed since lastReconnect.
C8_Interval ==
  /\ gen >= 2 => lastGap >= reconnectInterval
  /\ \A c \in Callers :
       cs[c].pc \in {"teardown", "attempt", "backoff"} =>
         sinceReconnect >= reconnectInterval
\* a second reconnection succeeded, after a Reconnect that had to wait
C8_Witness == gen >= 2 /\ \E c \in Callers : cs[c].superseded > 0 /\ cs[c].pc = "fn2"

\* C9 as stated: of two callers in Reconnect at once, the one that gets the
\* mutex second returns the first one's reconnection: it neither logs out of
\* the connection the first one built nor dials again.
C9_SecondReusesFirst ==
  \A c \in Callers :
    cs[c].superseded > 0 => cs[c].pc \notin {"attempt", "backoff"} /\ cs[c].dials = 0
\* C9, amended: the two are serialized by c.mu, and the second one makes its
\* own reconnection: holding the mutex it waits until reconnectInterval has
\* passed since the first one's, then logs out and dials, and what it returns
\* is the result of its own attempts.
C9_SecondRedials ==
  \A c \in Callers :
    cs[c].superseded > 0 =>
      /\ InReconnect(c) => mu = c
      /\ cs[c].pc \in {"teardown", "attempt", "backoff"} =>
           sinceReconnect >= reconnectInterval
      /\ cs[c].pc \in {"fn2", "done"} => cs[c].rec \in {"ok", "failed"}
      /\ cs[c].rec = "ok" => cs[c].conn > cs[c].superseded
      /\ cs[c].rec = "failed" => cs[c].dials = maxReconnectAttempts
\* the second caller is back from Reconnect with a connection of its own
C9_Witness ==
  \E c \in Callers :
    cs[c].superseded > 0 /\ cs[c].rec = "ok" /\ cs[c].pc = "fn2" /\ cs[c].conn >= 2

\* C10 as stated: no two verbs of the Client are in flight at once, and none
\* is in flight while Reconnect replaces the connection.
C10_VerbsSerialized ==
  \A c, d \in Callers :
    c # d => ~(InFlight(c) /\ InFlight(d)) /\ ~(InFlight(c) /\ Replacing(d))
\* C10, amended: the mutex serializes Reconnect only. At most one caller is
\* inside Reconnect, it holds c.mu, and only it replaces the connection.
C10_ReconnectSerialized ==
  /\ \A c \in Callers : InReconnect(c) <=> mu = c
  /\ Cardinality({c \in Callers : InReconnect(c)}) <= 1
\* one caller replaces the connection while the other waits for c.mu
C10_Witness ==
  \E c, d \in Callers : c # d /\ Replacing(c) /\ cs[d].pc = "lock"

\* ------------------------------------------------------------- ActionSync

\* Message-ID headers as the servers hold them, character by character
A1 == <<"<", "a", ">">>
A2 == <<"a">>
B1 == <<"<", "b", ">">>
NoId == <<>>
\* a message the server sent without an envelope (msg.Envelope == nil)
NoEnvelope == <<"nil">>
\* the header "<>"
OnlyBrackets == <<"<", ">">>

SrcFolders == {"INBOX", "Sent"}
DstFolders == {"INBOX", "Archive"}
\* the mapping lists of the runs, after expansion
MappingLists ==
  { <<[src |-> "INBOX", dst |-> "INBOX"]>>,
    <<[src |-> "INBOX", dst |-> "INBOX"], [src |-> "Sent", dst |-> "Archive"]>>,
    <<[src |-> "INBOX", dst |-> "Archive"], [src |-> "Sent", dst |-> "Archive"]>> }
SrcContents == {<<>>, <<A1, B1>>, <<NoId, B1>>}
DstContents == {<<>>, <<A2>>}
\* cfg.Workers as config.New leaves it: a negative option is kept
WorkerChoices == {-1, 1, 2}

\* strings.Trim(id, "<>")
Cutset == {"<", ">"}
RECURSIVE TrimLeft(_)
TrimLeft(s) == IF s # <<>> /\ Head(s) \in Cutset THEN TrimLeft(Tail(s)) ELSE s
RECURSIVE TrimRight(_)
TrimRight(s) ==
  IF s # <<>> /\ s[Len(s)] \in Cutset THEN TrimRight(SubSeq(s, 1, Len(s) - 1)) ELSE s
Trim(s) == TrimRight(TrimLeft(s))

\* a fetch that took every message to have a Message-ID
HasMessageIDAlways(m) == TRUE

\* "msg.Envelope != nil && msg.Envelope.MessageId != \"\""
HasMessageID(m) == m # NoEnvelope /\ m # <<>>

\* FetchMessageIDs: the ids of a folder's messages, empty ones left out
MessageIDs(box) ==
  {Trim(box[k]) : k \in {j \in 1..Len(box) : HasMessageID(box[j]) /\ Trim(box[j]) # <<>>}}

\* buildSyncPlan: "exist in source but not in destination"
NewIDs(srcIDs, dstIDs) == srcIDs \ dstIDs

\* FetchMessagesByIDs: the folder's messages whose id is a target
Targeted(m, targetIDs) == HasMessageID(m) /\ Trim(m) \in targetIDs
FetchMessagesByIDs(box, targetIDs) == SelectSeq(box, LAMBDA m : Targeted(m, targetIDs))

\* a run that returned nil whatever it counted
FinalResultIgnoringErrors(errors) == "nil"

\* ActionSync's last lines: the error of a run that counted errors
FinalResult(errors) == IF errors > 0 THEN "sync completed with errors" ELSE "nil"

\* ActionSync asks only when neither --quiet nor --confirm is given
MustAsk(c) == ~c.quiet /\ ~c.autoConfirm

FoldersOf(ms, side) == {ms[k][side] : k \in 1..Len(ms)}
IdsAt(box) == [f \in DOMAIN box |-> MessageIDs(box[f])]
NoTasks == <<>>
FreshHist(box) ==
  [dst0 |-> IdsAt(box), appends |-> {}, skipped |-> {}, declined |-> FALSE,
   firstComplete |-> FALSE, chunks |-> <<>>, finished |-> {},
   tried |-> {}, ok |-> {}, connFailed |-> {}, stopped |-> {}, late |-> {}, cancelLate |-> FALSE,
   dstFailed |-> {}, bodyFailed |-> FALSE,
   calls |-> [f \in DstFolders |-> 0], fatal |-> 0, absorbed |-> FALSE]

SyncInit ==
  /\ cfg \in [mappings : MappingLists, workers : WorkerChoices,
              quiet : BOOLEAN, autoConfirm : BOOLEAN]
  /\ srcBox \in [SrcFolders -> SrcContents]
  /\ \A f \in SrcFolders \ FoldersOf(cfg.mappings, "src") : srcBox[f] = <<>>
  /\ dstExists \in SUBSET FoldersOf(cfg.mappings, "dst")
  /\ dstBox \in [DstFolders -> DstContents]
  /\ \A f \in DstFolders \ dstExists : dstBox[f] = <<>>
  /\ run = 1
  /\ phase = "connect"
  /\ cancelled = FALSE
  /\ idx = 1
  /\ plans = <<>>
  /\ toCreate = {}
  /\ failedCount = 0
  /\ chunkStart = 0
  /\ tasks = NoTasks
  /\ totalSynced = 0
  /\ totalErrors = 0
  /\ result = "none"
  /\ hist = FreshHist(dstBox)
  /\ live = {}

\* the state of the run's variables when no run is modelled
SyncOff ==
  /\ cfg = [mappings |-> <<>>, workers |-> 1, quiet |-> TRUE, autoConfirm |-> TRUE]
  /\ srcBox = [f \in SrcFolders |-> <<>>]
  /\ dstBox = [f \in DstFolders |-> <<>>]
  /\ dstExists = {}
  /\ run = 0
  /\ phase = "off"
  /\ cancelled = FALSE
  /\ idx = 1
  /\ plans = <<>>
  /\ toCreate = {}
  /\ failedCount = 0
  /\ chunkStart = 0
  /\ tasks = NoTasks
  /\ totalSynced = 0
  /\ totalErrors = 0
  /\ result = "none"
  /\ hist = FreshHist(dstBox)
  /\ live = {}

\* the connections: srcClient, dstClient and the folderClient of plan j
SrcSession == <<"src", 0>>
DstSession == <<"dst", 0>>
TaskSession(j) == <<"dst", j>>

\* a return that left dstClient logged in
AfterReturnKeepsDst(ls) == ls \ {SrcSession}

\* the deferred srcClient.Logout() and dstClient.Logout()
AfterReturn(ls) == ls \ {SrcSession, DstSession}

\* the deferred calls run when ActionSync returns, and only then
Deferred == live' = IF phase' = "done" THEN AfterReturn(live) ELSE live

\* "return err" / "return nil" of ActionSync
Return(res) == phase' = "done" /\ result' = res

Min(a, b) == IF a < b THEN a ELSE b

\* client.New for the source and for the destination account
Connect(o) ==
  /\ phase = "connect"
  /\ IF cancelled THEN Return("context canceled")
     ELSE IF o = "ok" THEN phase' = "plan" /\ result' = result
     ELSE Return(o)
  /\ LET logged == IF cancelled \/ o = "source connection failed" THEN {}
                   ELSE IF o = "destination connection failed" THEN {SrcSession}
                   ELSE {SrcSession, DstSession}
     IN live' = IF phase' = "done" THEN AfterReturn(logged) ELSE logged
  /\ UNCHANGED <<cfg, srcBox, dstBox, dstExists, run, cancelled, idx, plans, toCreate,
                 failedCount, chunkStart, tasks, totalSynced, totalErrors, hist, nonSync>>

\* a planner that went on after a failed FetchMessagesByIDs
BodyFetchFailedNever(bo) == FALSE

\* buildSyncPlan: "if err != nil" after FetchMessagesByIDs
BodyFetchFailed(bo) == bo # "ok"

\* a planner that kept the destination's ids after a failed fetch
DstIDsKept(do, box) == MessageIDs(box)

\* buildSyncPlan: dstMessageIDs is the fetched set, or empty when
\* FetchMessageIDs on the destination failed
DstIDs(do, box) == IF do = "ok" THEN MessageIDs(box) ELSE {}

\* buildSyncPlan: one turn of the loop over the mappings. so, do and bo are
\* how FetchMessageIDs on the source, FetchMessageIDs on the destination and
\* FetchMessagesByIDs on the source end.
PlanMapping(so, do, bo) ==
  /\ phase = "plan"
  /\ idx <= Len(cfg.mappings)
  /\ do = "ok" => cfg.mappings[idx].dst \in dstExists
  /\ LET m == cfg.mappings[idx]
         srcIDs == MessageIDs(srcBox[m.src])
         dstFolderExists == do = "ok"
         dstIDs == DstIDs(do, dstBox[m.dst])
         fetched == [hist EXCEPT !.dstFailed = IF do = "ok" THEN @ ELSE @ \cup {idx}]
         wanted == NewIDs(srcIDs, dstIDs)
         bodies == FetchMessagesByIDs(srcBox[m.src], wanted)
     IN IF cancelled
          THEN Return("context canceled") /\ UNCHANGED <<idx, plans, hist>>
        ELSE IF so # "ok"
          THEN /\ idx' = idx + 1
               /\ hist' = [fetched EXCEPT !.skipped = @ \cup {idx}]
               /\ UNCHANGED <<plans, phase, result>>
        ELSE IF wanted = {}
          THEN idx' = idx + 1 /\ hist' = fetched /\ UNCHANGED <<plans, phase, result>>
        ELSE IF BodyFetchFailed(bo)
          THEN /\ Return("failed to fetch messages")
               /\ hist' = [fetched EXCEPT !.bodyFailed = TRUE]
               /\ UNCHANGED <<idx, plans>>
        ELSE /\ idx' = idx + 1
             /\ hist' = [fetched EXCEPT !.bodyFailed = @ \/ bo # "ok"]
             /\ plans' = IF Len(bodies) > 0
                           THEN Append(plans, [src |-> m.src, dst |-> m.dst,
                                               exists |-> dstFolderExists,
                                               msgs |-> bodies])
                           ELSE plans
             /\ UNCHANGED <<phase, result>>
  /\ Deferred
  /\ UNCHANGED <<cfg, srcBox, dstBox, dstExists, run, cancelled, toCreate, failedCount,
                 chunkStart, tasks, totalSynced, totalErrors, nonSync>>

\* ActionSync after buildSyncPlan: nothing new ends the run; otherwise the
\* folders to create are collected and the user is asked, or not
PlanDone ==
  /\ phase = "plan"
  /\ idx > Len(cfg.mappings)
  /\ IF cancelled THEN Return("context canceled") /\ UNCHANGED toCreate
     ELSE IF plans = <<>> THEN Return("nil") /\ UNCHANGED toCreate
     ELSE /\ phase' = IF MustAsk(cfg) THEN "confirm" ELSE "precreate"
          /\ toCreate' = {plans[k].dst : k \in {j \in 1..Len(plans) : ~plans[j].exists}}
          /\ result' = result
  /\ Deferred
  /\ UNCHANGED <<cfg, srcBox, dstBox, dstExists, run, cancelled, idx, plans, failedCount,
                 chunkStart, tasks, totalSynced, totalErrors, hist, nonSync>>

\* utils.AskConfirm("Proceed with synchronization?")
Confirm(answer) ==
  /\ phase = "confirm"
  /\ IF cancelled THEN Return("context canceled") /\ UNCHANGED hist
     ELSE IF answer = "yes" THEN phase' = "precreate" /\ UNCHANGED <<result, hist>>
     ELSE IF answer = "no"
       THEN Return("nil") /\ hist' = [hist EXCEPT !.declined = TRUE]
     ELSE Return("confirm failed") /\ UNCHANGED hist
  /\ Deferred
  /\ UNCHANGED <<cfg, srcBox, dstBox, dstExists, run, cancelled, idx, plans, toCreate,
                 failedCount, chunkStart, tasks, totalSynced, totalErrors, nonSync>>

\* how CreateMailbox can end for a folder: mailboxExists finds it, the LIST
\* fails, CREATE creates it, CREATE fails, CREATE answers "already exists"
CreateOutcomes(f) ==
  IF f \in dstExists THEN {"exists", "listError", "alreadyExists"}
                     ELSE {"created", "listError", "createError"}

\* CreateMailbox returned an error
CreateFailed(o) == o \in {"listError", "createError", "alreadyExists"}

\* a filter that took every error for "already exists"
AbsorbedAny(o) == TRUE

\* the error text contains "already exists" or "Mailbox exists"
Absorbed(o) == o = "alreadyExists"

\* pre-creation: one turn of the loop over foldersToCreate (a Go map)
PreCreate(f, o) ==
  /\ phase = "precreate"
  /\ f \in toCreate
  /\ o \in CreateOutcomes(f)
  /\ IF cancelled
       THEN Return("context canceled")
            /\ UNCHANGED <<toCreate, failedCount, dstExists, hist>>
       ELSE /\ toCreate' = toCreate \ {f}
            /\ failedCount' = IF CreateFailed(o) /\ ~Absorbed(o)
                                THEN failedCount + 1 ELSE failedCount
            /\ dstExists' = IF o = "created" THEN dstExists \cup {f} ELSE dstExists
            /\ hist' = [hist EXCEPT
                         !.calls[f] = @ + 1,
                         !.fatal = IF o \in {"listError", "createError"} THEN @ + 1 ELSE @,
                         !.absorbed = @ \/ o = "alreadyExists"]
            /\ UNCHANGED <<phase, result>>
  /\ Deferred
  /\ UNCHANGED <<cfg, srcBox, dstBox, run, cancelled, idx, plans, chunkStart, tasks,
                 totalSynced, totalErrors, nonSync>>

\* pre-creation is over: a failed folder ends the run
PreCreateDone ==
  /\ phase = "precreate"
  /\ toCreate = {}
  /\ IF failedCount > 0 THEN Return("failed to create folders")
     ELSE phase' = "chunk" /\ result' = result
  /\ Deferred
  /\ UNCHANGED <<cfg, srcBox, dstBox, dstExists, run, cancelled, idx, plans, toCreate,
                 failedCount, chunkStart, tasks, totalSynced, totalErrors, hist, nonSync>>

NewTask == [st |-> "new", k |-> 1, synced |-> 0, errors |-> 0, addSynced |-> 0, addErrors |-> 0]

\* a sum that kept the first task's count only
SumOfFirst(ts, field) == IF ts = <<>> THEN 0 ELSE Head(ts)[field]

\* the chunk's atomic counters after the goroutines' AddInt64 calls
RECURSIVE SumOf(_, _)
SumOf(ts, field) == IF ts = <<>> THEN 0 ELSE Head(ts)[field] + SumOf(Tail(ts), field)

\* a chunk loop that took all the plans that are left as one chunk
ChunkEndAll(start, size, n) == n

\* chunkEnd := min(chunkStart+chunkSize, len(activePlans))
ChunkEnd(start, size, n) == Min(start + size, n)

\* a context that never reported the cancellation
CtxErrNever(flag) == FALSE

\* ctx.Err() != nil
CtxErr(flag) == flag

\* the head of a turn of the chunk loop: past the last plan the run returns,
\* and so it does when ctx is cancelled; a chunkEnd before chunkStart makes
\* the slice expression panic
StartChunk ==
  /\ phase = "chunk"
  /\ LET chunkEnd == ChunkEnd(chunkStart, cfg.workers, Len(plans))
     IN IF chunkStart >= Len(plans)
          THEN Return(FinalResult(totalErrors))
        ELSE IF CtxErr(cancelled)
          THEN Return("context canceled")
        ELSE IF chunkEnd < chunkStart
          THEN Return("panic: slice bounds out of range")
        ELSE phase' = "spawn" /\ result' = result
  /\ Deferred
  /\ UNCHANGED <<cfg, srcBox, dstBox, dstExists, run, cancelled, idx, plans, toCreate,
                 failedCount, chunkStart, tasks, totalSynced, totalErrors, hist, nonSync>>

\* the trackers are set up and the chunk's goroutines are started
SpawnChunk ==
  /\ phase = "spawn"
  /\ LET chunkEnd == ChunkEnd(chunkStart, cfg.workers, Len(plans))
     IN /\ tasks' = [i \in 1..(chunkEnd - chunkStart) |-> NewTask]
        /\ hist' = [hist EXCEPT
                     !.chunks = Append(@, (chunkStart + 1)..chunkEnd),
                     !.late = IF cancelled THEN @ \cup (chunkStart + 1)..chunkEnd ELSE @]
  /\ phase' = "running"
  /\ UNCHANGED <<cfg, srcBox, dstBox, dstExists, run, cancelled, idx, plans, toCreate,
                 failedCount, chunkStart, totalSynced, totalErrors, result, live, nonSync>>

\* a chunk goroutine: client.New for its own destination connection
TaskConnect(i, o) ==
  /\ phase = "running"
  /\ i \in DOMAIN tasks
  /\ tasks[i].st = "new"
  /\ tasks' = [tasks EXCEPT ![i] =
                 IF CtxErr(cancelled) THEN [@ EXCEPT !.st = "finished"]
                 ELSE IF o = "ok" THEN [@ EXCEPT !.st = "append"]
                 ELSE [@ EXCEPT !.st = "finished", !.addErrors = 1]]
  /\ hist' = IF CtxErr(cancelled)
               THEN [hist EXCEPT !.finished = @ \cup {chunkStart + i},
                                 !.stopped = @ \cup {chunkStart + i}]
             ELSE IF o = "ok" THEN hist
             ELSE [hist EXCEPT !.finished = @ \cup {chunkStart + i},
                               !.connFailed = @ \cup {chunkStart + i}]
  /\ live' = IF tasks'[i].st = "append" THEN live \cup {TaskSession(chunkStart + i)}
             ELSE live
  /\ UNCHANGED <<cfg, srcBox, dstBox, dstExists, run, phase, cancelled, idx, plans,
                 toCreate, failedCount, chunkStart, totalSynced, totalErrors, result,
                 nonSync>>

\* a syncFolders that returned at the first failed AppendMessage
GoesOnIfOk(o, k, n) == o = "ok" /\ k < n

\* syncFolders: "for i, msg := range messages" goes on to the next message
\* whether AppendMessage failed or not
GoesOn(o, k, n) == k < n

\* a chunk goroutine in syncFolders: AppendMessage of its next message; after
\* the last one its counts are added to the chunk's
TaskAppend(i, o) ==
  /\ phase = "running"
  /\ i \in DOMAIN tasks
  /\ tasks[i].st = "append"
  /\ LET p == plans[chunkStart + i]
         t == tasks[i]
         msg == p.msgs[t.k]
         synced == IF o = "ok" THEN t.synced + 1 ELSE t.synced
         errors == IF o = "ok" THEN t.errors ELSE t.errors + 1
     IN /\ o = "ok" => p.dst \in dstExists
        /\ IF CtxErr(cancelled)
             THEN /\ tasks' = [tasks EXCEPT ![i] = [@ EXCEPT !.st = "finished"]]
                  /\ hist' = [hist EXCEPT !.finished = @ \cup {chunkStart + i},
                                           !.stopped = @ \cup {chunkStart + i}]
                  /\ UNCHANGED dstBox
             ELSE /\ tasks' = [tasks EXCEPT ![i] =
                       IF GoesOn(o, t.k, Len(p.msgs))
                         THEN [@ EXCEPT !.k = t.k + 1, !.synced = synced, !.errors = errors]
                         ELSE [@ EXCEPT !.st = "finished", !.synced = synced,
                                        !.errors = errors, !.addSynced = synced,
                                        !.addErrors = errors]]
                  /\ dstBox' = IF o = "ok"
                                 THEN [dstBox EXCEPT ![p.dst] = Append(@, msg)]
                                 ELSE dstBox
                  /\ hist' = [hist EXCEPT
                               !.appends = IF o = "ok" THEN @ \cup {<<p.dst, Trim(msg)>>}
                                           ELSE @,
                               !.finished = IF GoesOn(o, t.k, Len(p.msgs)) THEN @
                                            ELSE @ \cup {chunkStart + i},
                               !.tried = @ \cup {<<chunkStart + i, t.k>>},
                               !.ok = IF o = "ok" THEN @ \cup {<<chunkStart + i, t.k>>}
                                      ELSE @]
  /\ live' = IF tasks'[i].st = "finished" THEN live \ {TaskSession(chunkStart + i)}
             ELSE live
  /\ UNCHANGED <<cfg, srcBox, dstExists, run, phase, cancelled, idx, plans, toCreate,
                 failedCount, chunkStart, totalSynced, totalErrors, result, nonSync>>

\* a Wait that returned at once
AllDoneAtOnce(ts) == TRUE

\* chunkWg.Wait() returns when every goroutine of the chunk has returned
AllDone(ts) == \A i \in DOMAIN ts : ts[i].st = "finished"

\* chunkWg.Wait() and the totals
ChunkJoin ==
  /\ phase = "running"
  /\ AllDone(tasks)
  /\ IF cancelled
       THEN Return("context canceled") /\ UNCHANGED <<totalSynced, totalErrors, chunkStart>>
       ELSE /\ totalSynced' = totalSynced + SumOf(tasks, "addSynced")
            /\ totalErrors' = totalErrors + SumOf(tasks, "addErrors")
            /\ chunkStart' = chunkStart + cfg.workers
            /\ phase' = "chunk"
            /\ result' = result
  /\ tasks' = NoTasks
  /\ Deferred
  /\ UNCHANGED <<cfg, srcBox, dstBox, dstExists, run, cancelled, idx, plans, toCreate,
                 failedCount, hist, nonSync>>

\* ActionSync tests ctx.Err() no more before it returns: the chunk loop is
\* past the last plan, or pre-creation has ended with a failed folder
PastLastCheck ==
  \/ phase = "chunk" /\ chunkStart >= Len(plans)
  \/ phase = "precreate" /\ toCreate = {} /\ failedCount > 0

\* the signal that cancels ctx
Cancel ==
  /\ phase \notin {"off", "done"}
  /\ ~cancelled
  /\ cancelled' = TRUE
  /\ hist' = [hist EXCEPT !.cancelLate = PastLastCheck]
  /\ UNCHANGED <<cfg, srcBox, dstBox, dstExists, run, phase, idx, plans, toCreate,
                 failedCount, chunkStart, tasks, totalSynced, totalErrors, result, live,
                 nonSync>>

\* after a run that returned nil the command is run a second time on the
\* same configuration and accounts
NextRun ==
  /\ phase = "done"
  /\ run = 1
  /\ result = "nil"
  /\ run' = 2
  /\ phase' = "connect"
  /\ cancelled' = FALSE
  /\ idx' = 1
  /\ plans' = <<>>
  /\ toCreate' = {}
  /\ failedCount' = 0
  /\ chunkStart' = 0
  /\ tasks' = NoTasks
  /\ totalSynced' = 0
  /\ totalErrors' = 0
  /\ result' = "none"
  /\ hist' = [FreshHist(dstBox) EXCEPT
                !.firstComplete = result = "nil" /\ hist.skipped = {} /\ ~hist.declined]
  /\ UNCHANGED <<cfg, srcBox, dstBox, dstExists, live, nonSync>>

CallOutcomes == {"ok", "fail"}

SyncNext ==
  \/ \E o \in {"ok", "source connection failed", "destination connection failed"} :
       Connect(o)
  \/ \E so \in CallOutcomes, do \in CallOutcomes, bo \in CallOutcomes :
       PlanMapping(so, do, bo)
  \/ PlanDone
  \/ \E answer \in {"yes", "no", "error"} : Confirm(answer)
  \/ \E f \in DstFolders, o \in {"exists", "created", "listError", "createError",
                                 "alreadyExists"} : PreCreate(f, o)
  \/ PreCreateDone
  \/ StartChunk
  \/ SpawnChunk
  \/ \E i \in 1..Len(tasks), o \in CallOutcomes : TaskConnect(i, o)
  \/ \E i \in 1..Len(tasks), o \in CallOutcomes : TaskAppend(i, o)
  \/ ChunkJoin
  \/ Cancel
  \/ NextRun

\* --------------------------------------------------- the run's properties

\* the Message-IDs of mapping k's source folder that its destination folder
\* did not hold when the run started
Missing(k) ==
  MessageIDs(srcBox[cfg.mappings[k].src]) \ hist.dst0[cfg.mappings[k].dst]
Copied(k) ==
  \A x \in Missing(k) : x \in MessageIDs(dstBox[cfg.mappings[k].dst])

\* C1: a run never APPENDs to a destination folder a message whose
\* Message-ID that folder held when the run started, however the planner's
\* IMAP calls ended.
C1_NoAppendOfExisting ==
  \A a \in hist.appends : a[2] \notin hist.dst0[a[1]]

\* C2 as stated: when ActionSync returns nil, every Message-ID that a
\* mapping's source folder held and its destination folder did not is in the
\* destination folder afterwards.
C2_SuccessMeansCopied ==
  phase = "done" /\ result = "nil" =>
    \A k \in 1..Len(cfg.mappings) : Copied(k)
\* C2, amended: the same, for the mappings whose source FetchMessageIDs
\* succeeded, when the user did not decline the plan.
C2_CopiedUnlessSkippedOrDeclined ==
  phase = "done" /\ result = "nil" /\ ~hist.declined =>
    \A k \in (1..Len(cfg.mappings)) \ hist.skipped : Copied(k)
\* a run returned nil after it copied what one mapping missed and skipped
\* another mapping
C2_Witness ==
  /\ phase = "done" /\ result = "nil" /\ ~hist.declined
  /\ hist.skipped # {}
  /\ \E k \in (1..Len(cfg.mappings)) \ hist.skipped : Missing(k) # {} /\ Copied(k)

\* C3: after a first run that returned nil, skipped no mapping and was not
\* declined, a second run on the same configuration and accounts reports
\* synced = 0 and errors = 0.
C3_SecondRunCopiesNothing ==
  run = 2 /\ phase = "done" /\ hist.firstComplete =>
    totalSynced = 0 /\ totalErrors = 0

\* the execution phase: the chunk loop and its goroutines
Executing == phase \in {"chunk", "spawn", "running"}

\* the destination connections that are open: dstClient from its client.New
\* until the deferred Logout at return, and folderClient of every goroutine
\* between its client.New and its deferred Logout
LiveDst ==
  (IF phase \in {"plan", "confirm", "precreate", "chunk", "spawn", "running"} THEN 1 ELSE 0)
  + Cardinality({i \in DOMAIN tasks : tasks[i].st = "append"})

\* C16 as stated: at every instant of the execution phase at most W
\* destination connections are open.
C16_LiveAtMostW == Executing => LiveDst <= cfg.workers

\* C16 amended: at every instant of the execution phase the open destination
\* connections are the shared one opened at the start of the run plus at most
\* one per task of the current chunk, and a chunk has at most W tasks.
C16_LiveAtMostChunkPlusShared ==
  Executing =>
    /\ LiveDst <= 1 + Len(tasks)
    /\ tasks # NoTasks => Len(tasks) <= cfg.workers

C16_Witness ==
  /\ phase = "running"
  /\ cfg.workers = 2
  /\ LiveDst = cfg.workers + 1

\* C18: no task of a chunk is started before every task of every earlier
\* chunk has finished, its Logout included.
C18_ChunksInSequence ==
  \A c \in 1..Len(hist.chunks) :
    \A b \in 1..(c - 1) : hist.chunks[b] \subseteq hist.finished

C18_Witness ==
  /\ Len(hist.chunks) = 2
  /\ phase = "running"
  /\ \E i \in DOMAIN tasks : tasks[i].st = "append"
  /\ hist.chunks[1] \subseteq hist.finished

RECURSIVE Concat(_)
Concat(sets) ==
  IF sets = <<>> THEN <<>>
  ELSE [i \in 1..Cardinality(Head(sets)) |->
          CHOOSE x \in Head(sets) : Cardinality({y \in Head(sets) : y < x}) = i - 1]
       \o Concat(Tail(sets))

\* C19: in a run that reaches the execution phase and is not cancelled, every
\* active plan is handed to exactly one task; the chunks are contiguous
\* slices of at most W plans, in plan order, none skipped, none taken twice.
C19_EveryPlanOnce ==
  /\ \A c \in 1..Len(hist.chunks) :
       /\ hist.chunks[c] # {}
       /\ Cardinality(hist.chunks[c]) <= cfg.workers
  /\ \E n \in 0..Len(plans) : Concat(hist.chunks) = [i \in 1..n |-> i]
  /\ (phase = "done" /\ ~cancelled /\ failedCount = 0
        /\ result \notin {"nil", "source connection failed", "destination connection failed",
                          "failed to fetch messages", "confirm failed"})
       => Concat(hist.chunks) = [i \in 1..Len(plans) |-> i]

AbortResults ==
  {"source connection failed", "destination connection failed",
   "failed to fetch messages", "confirm failed", "context canceled",
   "panic: slice bounds out of range"}

EndedUncancelled == phase = "done" /\ ~cancelled

\* C21 as stated: at the end of a run that is not cancelled, total_synced is
\* the number of APPENDs that succeeded and total_errors the number of
\* APPENDs that failed, over all tasks of all chunks.
C21_TotalsAreAppends ==
  EndedUncancelled =>
    /\ totalSynced = Cardinality(hist.ok)
    /\ totalErrors = Cardinality(hist.tried \ hist.ok)

\* C21 amended: at the end of a run that is not cancelled, total_synced is
\* the number of APPENDs that succeeded, and total_errors is the number of
\* APPENDs that failed plus the number of tasks that could not open their
\* destination connection; no task's count is lost.
C21_TotalsAreAppendsAndConnects ==
  EndedUncancelled =>
    /\ totalSynced = Cardinality(hist.ok)
    /\ totalErrors = Cardinality(hist.tried \ hist.ok) + Cardinality(hist.connFailed)

C21_Witness ==
  /\ EndedUncancelled
  /\ Len(hist.chunks) = 2
  /\ totalSynced = 1
  /\ totalErrors = 2
  /\ Cardinality(hist.connFailed) = 1

\* the destination folders of the active plans that the planner did not find
FoldersToCreate == {plans[k].dst : k \in {j \in 1..Len(plans) : ~plans[j].exists}}

\* the loop over foldersToCreate has come to its end
PreCreationOver ==
  \/ Executing
  \/ result \in {"failed to create folders", "nil", "sync completed with errors",
                 "panic: slice bounds out of range"} /\ hist.chunks # <<>>
  \/ result = "failed to create folders"

\* C22: pre-creation calls CreateMailbox once for each distinct destination
\* folder of the active plans that was not found; an "already exists" error
\* is no failure, any other error is; after a failure the run returns an
\* error at the end of pre-creation: no task connects and nothing is APPENDed.
C22_PreCreation ==
  /\ \A f \in DstFolders : hist.calls[f] <= 1
  /\ {f \in DstFolders : hist.calls[f] > 0} \subseteq FoldersToCreate
  /\ PreCreationOver => {f \in DstFolders : hist.calls[f] > 0} = FoldersToCreate
  /\ failedCount = hist.fatal
  /\ hist.fatal > 0 =>
       /\ ~Executing
       /\ hist.chunks = <<>> /\ tasks = NoTasks
       /\ hist.tried = {} /\ hist.connFailed = {}
       /\ phase = "done" => result \in {"failed to create folders", "context canceled"}
       /\ EndedUncancelled => result = "failed to create folders"
  /\ (hist.fatal = 0 /\ PreCreationOver) => result # "failed to create folders"

C22_Witness ==
  /\ phase = "done"
  /\ result = "failed to create folders"
  /\ hist.calls = [f \in DstFolders |-> 1]
  /\ hist.absorbed
  /\ hist.fatal = 1

\* the positions of plan j's messages for which an APPEND was attempted
TriedOf(j) == {k \in 1..Len(plans[j].msgs) : <<j, k>> \in hist.tried}

\* the tasks that came to their end without seeing a cancellation
EndedTasks == hist.finished \ hist.stopped

\* C23 as stated: a task that is not cancelled attempts an APPEND for every
\* message of its plan, whatever APPEND failed before, so that successes +
\* failures = n; and a run that is not cancelled goes through all the tasks
\* of all the chunks.
C23_EveryMessageTried ==
  /\ \A j \in EndedTasks : TriedOf(j) = 1..Len(plans[j].msgs)
  /\ (EndedUncancelled /\ hist.chunks # <<>>) => hist.finished = 1..Len(plans)

\* C23 amended: a task that is not cancelled and has opened its destination
\* connection attempts an APPEND for every message of its plan, whatever
\* APPEND failed before, so that successes + failures = n; a task that
\* cannot open its connection attempts none and counts one error; and a run
\* that is not cancelled goes through all the tasks of all the chunks.
C23_EveryMessageTriedOnceConnected ==
  /\ \A j \in EndedTasks \ hist.connFailed : TriedOf(j) = 1..Len(plans[j].msgs)
  /\ \A j \in hist.connFailed : TriedOf(j) = {}
  /\ (EndedUncancelled /\ hist.chunks # <<>>) => hist.finished = 1..Len(plans)

C23_Witness ==
  /\ EndedUncancelled
  /\ Len(hist.chunks) = 2
  /\ <<1, 1>> \in hist.tried \ hist.ok
  /\ <<1, 2>> \in hist.ok
  /\ 2 \in EndedTasks \ hist.connFailed

\* C24 as stated: a task that has seen the cancellation at a check point
\* starts no further APPEND, and after the cancellation no chunk is started.
C24_NoChunkAfterCancel ==
  [][run' = run =>
       /\ \A x \in hist'.tried : x[1] \in hist.stopped => x \in hist.tried
       /\ cancelled => hist'.chunks = hist.chunks]_vars

C24_StepAfterCancel ==
  run' = run =>
    /\ \A x \in hist'.tried : x[1] \in hist.stopped => x \in hist.tried
    /\ cancelled => hist'.tried = hist.tried /\ LiveDst' <= LiveDst
    /\ (cancelled /\ phase = "chunk") => hist'.chunks = hist.chunks /\ phase' = "done"

C24_LateChunk ==
  \A j \in hist.late :
    /\ TriedOf(j) = {}
    /\ j \notin hist.connFailed
    /\ j \in hist.finished => j \in hist.stopped
    /\ \A i \in DOMAIN tasks : chunkStart + i = j => tasks[i].st # "append"

\* C24 amended: a task that has seen the cancellation at a check point starts
\* no further APPEND; once the chunk loop has seen it at the head of a turn
\* no chunk is started; the tasks of a chunk that is launched between the
\* loop's check and the cancellation open no connection and APPEND nothing.
C24_NothingAfterCancelSeen ==
  /\ []C24_LateChunk
  /\ [][C24_StepAfterCancel]_vars

C24_Witness ==
  /\ phase = "done"
  /\ result = "context canceled"
  /\ \E j \in hist.stopped : Len(plans[j].msgs) = 2 /\ TriedOf(j) = {1}

\* C25 as stated: a run that is cancelled during the execution phase returns
\* the cancellation error, and its totals are the APPENDs that were completed
\* before the cancellation, the partial counts of the cancelled tasks
\* included.
C25_CancelledTotals ==
  (phase = "done" /\ result = "context canceled" /\ hist.chunks # <<>>)
    => /\ totalSynced = Cardinality(hist.ok)
       /\ totalErrors = Cardinality(hist.tried \ hist.ok)

PlansOf(k) == {n \in 1..Len(plans) : plans[n].src = cfg.mappings[k].src}

\* the Message-IDs of a plan's messages
PlanIDs(n) == {Trim(plans[n].msgs[i]) : i \in 1..Len(plans[n].msgs)}

\* C27: a mapping whose destination fetch failed is planned against an empty
\* destination, with destination_folder_exists false; the flag is true only
\* when the fetch succeeded, and then the plan holds what the destination
\* lacked; a mapping whose source fetch failed gets no plan, and the planner
\* goes on to the next mapping.
C27_PlannerFetches ==
  /\ \A k \in 1..Len(cfg.mappings) : \A n \in PlansOf(k) :
       /\ plans[n].exists <=> k \notin hist.dstFailed
       /\ k \in hist.dstFailed => PlanIDs(n) = MessageIDs(srcBox[plans[n].src])
       /\ k \notin hist.dstFailed
            => PlanIDs(n) = MessageIDs(srcBox[plans[n].src]) \ hist.dst0[plans[n].dst]
  /\ \A k \in hist.skipped : PlansOf(k) = {} /\ idx > k
  /\ (phase = "done" /\ hist.skipped # {} /\ ~cancelled /\ ~hist.bodyFailed)
       => result # "failed to fetch messages"

C27_Witness ==
  /\ hist.skipped = {1}
  /\ hist.dstFailed = {2}
  /\ PlansOf(1) = {}
  /\ PlansOf(2) = {1}
  /\ ~plans[1].exists
  /\ plans[1].dst \in dstExists
  /\ hist.dst0[plans[1].dst] # {}
  /\ phase = "done" /\ result = "nil"

\* C28: when FetchMessagesByIDs fails for a mapping the run ends with that
\* error: no folder is created, no task connects and nothing is APPENDed,
\* whatever was planned for the mappings before.
C28_BodyFetchFatal ==
  hist.bodyFailed =>
    /\ phase = "done"
    /\ result = "failed to fetch messages"
    /\ \A f \in DstFolders : hist.calls[f] = 0
    /\ hist.chunks = <<>> /\ tasks = NoTasks
    /\ hist.tried = {} /\ hist.connFailed = {}
    /\ live = {}

C28_Witness ==
  /\ hist.bodyFailed
  /\ idx = 2
  /\ Len(plans) = 1
  /\ ~plans[1].exists

\* the prompt was answered, and not with a confirmation
C31_Refused == hist.declined \/ (phase = "done" /\ result = "confirm failed")

\* C31: without auto-confirm, in quiet mode too, the run goes on to create
\* folders and APPEND only from the confirmation prompt, and after an answer
\* that is not a confirmation nothing is created and nothing is APPENDed.
C31_PromptBeforeExecution ==
  /\ [][(~cfg.autoConfirm /\ phase' = "precreate") => phase \in {"confirm", "precreate"}]_vars
  /\ [](C31_Refused => /\ \A f \in DstFolders : hist.calls[f] = 0
                       /\ hist.tried = {} /\ hist.chunks = <<>>)

\* ------------------------------------------- New and the cached delimiter

Delimiters == {"", "/", "."}
ListAnswers == UNION {[1..n -> Delimiters] : n \in 0..MaxList}

\* a getDelimiter that took the delimiter of the first mailbox, whatever it is
getDelimiterOfFirst(answer) == IF answer = <<>> THEN "" ELSE Head(answer)

\* getDelimiter: "/" unless a mailbox of the answer carries a delimiter
RECURSIVE getDelimiter(_)
getDelimiter(answer) ==
  IF answer = <<>> THEN "/"
  ELSE IF Head(answer) # "" THEN Head(answer)
  ELSE getDelimiter(Tail(answer))

\* Reconnect replaces c.Client and leaves c.delimiter alone
DelimiterAfterReconnect(cached) == cached

OpenOff ==
  /\ opened = "off"
  /\ listAnswer = <<>>
  /\ delimiter = ""
  /\ delimWrites = 0
  /\ opCount = 0
  /\ lastDelim = ""

OpenInit ==
  /\ opened = "dialing"
  /\ listAnswer = <<>>
  /\ delimiter = ""
  /\ delimWrites = 0
  /\ opCount = 0
  /\ lastDelim = ""

\* New: connectAndLogin
NewConnect(ok) ==
  /\ opened = "dialing"
  /\ opened' = IF ok THEN "listing" ELSE "failed"
  /\ UNCHANGED <<listAnswer, delimiter, delimWrites, opCount, lastDelim, nonOpen>>

\* New: "Get and cache the delimiter"; a failed LIST logs out and fails New
NewCache(answer, ok) ==
  /\ opened = "listing"
  /\ IF ok
       THEN /\ opened' = "open"
            /\ listAnswer' = answer
            /\ delimiter' = getDelimiter(answer)
            /\ delimWrites' = delimWrites + 1
       ELSE /\ opened' = "failed"
            /\ UNCHANGED <<listAnswer, delimiter, delimWrites>>
  /\ UNCHANGED <<opCount, lastDelim, nonOpen>>

\* a Reconnect of the opened Client, successful or not
OpenReconnect(ok) ==
  /\ opened = "open"
  /\ opCount < MaxOps
  /\ opCount' = opCount + 1
  /\ delimiter' = DelimiterAfterReconnect(delimiter)
  /\ UNCHANGED <<opened, listAnswer, delimWrites, lastDelim, nonOpen>>

\* CreateMailbox asks the server again, with getDelimiter, and keeps the
\* answer in a local
OpenGetDelimiter(answer) ==
  /\ opened = "open"
  /\ opCount < MaxOps
  /\ opCount' = opCount + 1
  /\ lastDelim' = getDelimiter(answer)
  /\ UNCHANGED <<opened, listAnswer, delimiter, delimWrites, nonOpen>>

\* GetDelimiter returns the cached value
OpenGetCached ==
  /\ opened = "open"
  /\ opCount < MaxOps
  /\ opCount' = opCount + 1
  /\ lastDelim' = delimiter
  /\ UNCHANGED <<opened, listAnswer, delimiter, delimWrites, nonOpen>>

OpenNext ==
  \/ \E ok \in BOOLEAN : NewConnect(ok)
  \/ \E answer \in ListAnswers, ok \in BOOLEAN : NewCache(answer, ok)
  \/ \E ok \in BOOLEAN : OpenReconnect(ok)
  \/ \E answer \in ListAnswers : OpenGetDelimiter(answer)
  \/ OpenGetCached

\* C11: c.delimiter is assigned once, by New, and an opened Client keeps that
\* value through every later operation and Reconnect; it is "/" when no
\* mailbox of the LIST "" "" answer carries a delimiter, and never empty.
C11_DelimiterCachedOnce ==
  /\ opened \in {"dialing", "listing", "failed"} => delimWrites = 0 /\ delimiter = ""
  /\ opened = "open" =>
       /\ delimWrites = 1
       /\ delimiter # ""
       /\ delimiter \in {"/"} \cup {listAnswer[k] : k \in 1..Len(listAnswer)}
       /\ (\A k \in 1..Len(listAnswer) : listAnswer[k] = "") => delimiter = "/"
       /\ (\E k \in 1..Len(listAnswer) : listAnswer[k] # "") =>
            \E k \in 1..Len(listAnswer) :
              /\ delimiter = listAnswer[k]
              /\ \A j \in 1..(k - 1) : listAnswer[j] = ""
\* an opened Client whose server answered with an empty delimiter went
\* through a Reconnect and a getDelimiter with another answer
C11_Witness ==
  /\ opened = "open" /\ listAnswer = <<"">> /\ delimiter = "/"
  /\ opCount = MaxOps /\ lastDelim = "."

\* ---------------------------------------------------------- CreateMailbox

Tasks == {"t1", "t2"}

\* folder names, character by character
FolderA == <<"A">>
FolderAB == <<"A", "/", "B">>
FolderAC == <<"A", "/", "C">>
FolderABC == <<"A", "/", "B", "/", "C">>
Names == {FolderA, FolderAB, FolderAC, FolderABC}
Paths == Names
InitialFolders == {{}, {FolderA}, {FolderA, FolderAB}, {FolderA, FolderAC}}

\* strings.Contains(name, delimiter), for a delimiter of one character
Contains(name, d) == \E k \in 1..Len(name) : name[k] = d

\* strings.Split(name, delimiter)
RECURSIVE Split(_, _)
Split(name, d) ==
  IF ~Contains(name, d) THEN <<name>>
  ELSE LET k == CHOOSE i \in 1..Len(name) :
                  name[i] = d /\ \A j \in 1..(i - 1) : name[j] # d
       IN <<SubSeq(name, 1, k - 1)>> \o Split(SubSeq(name, k + 1, Len(name)), d)

\* strings.Join(parts, delimiter)
RECURSIVE Join(_, _)
Join(parts, d) ==
  IF parts = <<>> THEN <<>>
  ELSE IF Len(parts) = 1 THEN parts[1]
  ELSE parts[1] \o <<d>> \o Join(Tail(parts), d)

\* a createParentFolders that left out the topmost parent
ParentPathsBelowTop(name, d) ==
  LET parts == Split(name, d)
  IN [i \in 1..(Len(parts) - 2) |-> Join(SubSeq(parts, 1, i + 1), d)]

\* createParentFolders: parentPath for i = 1 .. len(parts)-1
ParentPaths(name, d) ==
  LET parts == Split(name, d)
  IN [i \in 1..(Len(parts) - 1) |-> Join(SubSeq(parts, 1, i), d)]

\* CreateMailbox: the parents to ensure, given the delimiter it was told
ParentsToEnsure(name, d) ==
  IF d # "" /\ Contains(name, d) THEN ParentPaths(name, d) ELSE <<>>

\* a mailboxExists that never found anything
mailboxExistsNever(path, fs) == FALSE

\* mailboxExists: LIST "" path answers with a mailbox
mailboxExists(path, fs) == path = <<>> \/ path \in fs

\* a lock map kept per Client
LockKeyPerClient(t, path) == <<t, path>>

\* getFolderLock: one mutex per path for the whole process
LockKey(t, path) == path

\* a folder lock that let everybody in
CanTakeAlways(key) == TRUE

\* lock.Lock() returns when nobody holds the mutex
CanTake(key) == key \notin heldLocks

NewCreateTask(name) ==
  [pc |-> "lock", name |-> name, cur |-> name, k |-> 0, parents |-> <<>>,
   delim |-> "", created |-> FALSE, err |-> "nil", sent |-> <<>>,
   found |-> {}, checked |-> <<>>, locked |-> {}]

CreateOff ==
  /\ folders = {}
  /\ folders0 = {}
  /\ serverDelim = "/"
  /\ heldLocks = {}
  /\ tk = [t \in Tasks |-> [NewCreateTask(FolderA) EXCEPT !.pc = "off"]]
  /\ creates = [q \in Paths |-> 0]
  /\ createOKs = [q \in Paths |-> 0]
  /\ faults = 0

CreateInit ==
  /\ folders \in InitialFolders
  /\ folders0 = folders
  /\ serverDelim \in {"/", "."}
  /\ heldLocks = {}
  /\ tk \in {[t \in Tasks |-> NewCreateTask(f[t])] : f \in [Tasks -> Names]}
  /\ creates = [q \in Paths |-> 0]
  /\ createOKs = [q \in Paths |-> 0]
  /\ faults = 0

\* the task goes on to its next parent, or to the CREATE of the folder itself
Advance(r) ==
  IF r.k < Len(r.parents)
    THEN [r EXCEPT !.k = r.k + 1, !.cur = r.parents[r.k + 1], !.pc = "lock"]
    ELSE [r EXCEPT !.k = Len(r.parents) + 1, !.cur = r.name, !.pc = "create"]

\* an error return that left the locks held
FailedLocked(r, e) == [r EXCEPT !.pc = "done", !.err = e]

\* return with an error: the deferred and the explicit Unlock calls
Failed(r, e) == [r EXCEPT !.pc = "done", !.err = e, !.locked = {}]

\* the section of one path is left: its parent lock is released, or the
\* folder itself was created and CreateMailbox returns true
Left(t, r) ==
  IF r.k > Len(r.parents)
    THEN [r EXCEPT !.pc = "done", !.created = TRUE, !.locked = {}]
    ELSE Advance([r EXCEPT !.locked = @ \ {LockKey(t, r.cur)}])

Settle(t, r) ==
  /\ tk' = [tk EXCEPT ![t] = r]
  /\ heldLocks' = (heldLocks \ tk[t].locked) \cup r.locked

\* lock := getFolderLock(path); lock.Lock()
TaskLock(t) ==
  /\ tk[t].pc = "lock"
  /\ CanTake(LockKey(t, tk[t].cur))
  /\ Settle(t, [tk[t] EXCEPT !.pc = "check",
                             !.locked = @ \cup {LockKey(t, tk[t].cur)}])
  /\ UNCHANGED <<folders, folders0, serverDelim, creates, createOKs, faults, nonCreate>>

\* mailboxExists(path), of the folder (k = 0) or of a parent
TaskCheck(t, ok) ==
  /\ tk[t].pc = "check"
  /\ ok \/ faults < MaxFaults
  /\ LET r == [tk[t] EXCEPT !.checked = Append(@, tk[t].cur)]
         here == mailboxExists(r.cur, folders)
         seen == [r EXCEPT !.found = @ \cup {r.cur}]
     IN Settle(t, IF ~ok THEN Failed(r, "list")
                  ELSE IF r.k = 0
                    THEN (IF here THEN [seen EXCEPT !.pc = "done", !.locked = {}]
                                  ELSE [r EXCEPT !.pc = "delim"])
                    ELSE (IF here THEN Left(t, seen)
                                  ELSE [r EXCEPT !.pc = "create"]))
  /\ faults' = IF ok THEN faults ELSE faults + 1
  /\ UNCHANGED <<folders, folders0, serverDelim, creates, createOKs, nonCreate>>

\* delimiter, err := c.getDelimiter(), then the parents to ensure
TaskDelimiter(t, ok) ==
  /\ tk[t].pc = "delim"
  /\ ok \/ faults < MaxFaults
  /\ LET r == tk[t]
     IN Settle(t, IF ~ok THEN Failed(r, "delimiter")
                  ELSE Advance([r EXCEPT !.delim = serverDelim,
                                         !.parents = ParentsToEnsure(r.name, serverDelim)]))
  /\ faults' = IF ok THEN faults ELSE faults + 1
  /\ UNCHANGED <<folders, folders0, serverDelim, creates, createOKs, nonCreate>>

\* what one CREATE of path can come to: OK, refused, or the connection
\* lost before or after the server carried it out
CreateAnswers(path) ==
  IF path \in folders THEN {"NO", "EOF"}
  ELSE {"OK", "NO", "EOF", "EOF-done"}

\* one CREATE command and its answer, the first of safeCall (pc "create")
\* or the second one after Reconnect (pc "retry")
SendCreate(t, o) ==
  /\ o \in CreateAnswers(tk[t].cur)
  \* the server always answers: NO to the CREATE of a folder it has
  /\ o = "OK" \/ faults < MaxFaults \/ (o = "NO" /\ tk[t].cur \in folders)
  /\ LET r == [tk[t] EXCEPT !.sent = Append(@, tk[t].cur)]
     IN /\ creates' = [creates EXCEPT ![r.cur] = @ + 1]
        /\ createOKs' = [createOKs EXCEPT ![r.cur] = IF o = "OK" THEN @ + 1 ELSE @]
        /\ folders' = IF o \in {"OK", "EOF-done"} THEN folders \cup {r.cur} ELSE folders
        /\ faults' = IF o = "OK" \/ faults = MaxFaults THEN faults ELSE faults + 1
        /\ Settle(t, IF o = "OK" THEN Left(t, r)
                     ELSE IF o = "NO" THEN Failed(r, "create")
                     ELSE IF r.pc = "create" THEN [r EXCEPT !.pc = "reconnect"]
                     ELSE Failed(r, "create"))
  /\ UNCHANGED <<folders0, serverDelim, nonCreate>>

\* safeCall: fn()
TaskCreate(t, o) ==
  /\ tk[t].pc = "create"
  /\ SendCreate(t, o)

\* safeCall: c.Reconnect() after a connection error
TaskReconnect(t, ok) ==
  /\ tk[t].pc = "reconnect"
  /\ Settle(t, IF ok THEN [tk[t] EXCEPT !.pc = "retry"]
               ELSE Failed(tk[t], "reconnect"))
  /\ UNCHANGED <<folders, folders0, serverDelim, creates, createOKs, faults, nonCreate>>

\* safeCall: return fn(), the one retry
TaskRetry(t, o) ==
  /\ tk[t].pc = "retry"
  /\ SendCreate(t, o)

CreateNext ==
  \E t \in Tasks :
    \/ TaskLock(t)
    \/ \E ok \in BOOLEAN : TaskCheck(t, ok)
    \/ \E ok \in BOOLEAN : TaskDelimiter(t, ok)
    \/ \E o \in {"OK", "NO", "EOF", "EOF-done"} : TaskCreate(t, o)
    \/ \E ok \in BOOLEAN : TaskReconnect(t, ok)
    \/ \E o \in {"OK", "NO", "EOF", "EOF-done"} : TaskRetry(t, o)

Range(q) == {q[i] : i \in 1..Len(q)}

\* C12 as stated: CreateMailbox of a folder the server already has returns
\* created = false and no error, and sends no CREATE for it or its parents.
C12_ExistingNoCreateNoError ==
  \A t \in Tasks :
    (tk[t].pc = "done" /\ tk[t].name \in folders0)
      => /\ ~tk[t].created
         /\ tk[t].err = "nil"
         /\ tk[t].sent = <<>>

\* C12 amended: CreateMailbox of a folder the server already has returns
\* created = false and sends no CREATE for it or its parents; it returns no
\* error unless the existence check of the folder itself (LIST) failed, and
\* then it returns that error.
C12_ExistingNoCreate ==
  \A t \in Tasks :
    (tk[t].pc = "done" /\ tk[t].name \in folders0)
      => /\ ~tk[t].created
         /\ tk[t].sent = <<>>
         /\ tk[t].checked = <<tk[t].name>>
         /\ tk[t].err \in {"nil", "list"}
         /\ (tk[t].err = "nil") <=> (tk[t].name \in tk[t].found)

C12_Witness ==
  \E t \in Tasks :
    /\ tk[t].pc = "done"
    /\ tk[t].name = FolderAB
    /\ tk[t].name \in folders0
    /\ tk[t].found = {FolderAB}
    /\ tk[t].err = "nil"

\* C13 as stated: for every path at most one CREATE is sent during a run,
\* all tasks and all retries after a reconnect counted.
C13_OneCreatePerPath == \A q \in Paths : creates[q] <= 1

\* C13 amended: once a CREATE of a path was answered OK no further CREATE of
\* that path is sent during the run, whichever task and whichever retry; so
\* at most one CREATE per path succeeds. A CREATE that failed can be followed
\* by another one for the same path.
C13_NoCreateAfterOK ==
  [][\A q \in Paths : creates'[q] > creates[q] => createOKs[q] = 0]_vars

C13_Witness ==
  \E q \in Paths : creates[q] = 3 /\ createOKs[q] = 1

\* the paths whose check-and-CREATE section the task is in
Section(t) ==
  (IF tk[t].pc \in {"done", "off"} \/ (tk[t].pc = "lock" /\ tk[t].k = 0)
     THEN {} ELSE {tk[t].name})
  \cup
  (IF tk[t].k \in 1..Len(tk[t].parents)
        /\ tk[t].pc \in {"check", "create", "reconnect", "retry"}
     THEN {tk[t].cur} ELSE {})

\* C14: two tasks are never inside the check-and-CREATE section of the same
\* path at once, and a task that found a path present sends no CREATE for it;
\* when A/B and A/C are created by two tasks and no command fails, exactly one
\* CREATE A is sent, and the other task found A present.
C14_AncestorSectionsOrdered ==
  /\ \A t1, t2 \in Tasks : t1 # t2 => Section(t1) \cap Section(t2) = {}
  /\ \A t \in Tasks : tk[t].found \cap Range(tk[t].sent) = {}
  /\ (/\ tk["t1"].name = FolderAB /\ tk["t2"].name = FolderAC
      /\ serverDelim = "/" /\ folders0 = {} /\ faults = 0
      /\ \A t \in Tasks : tk[t].pc = "done")
     => /\ creates[FolderA] = 1
        /\ \E t1, t2 \in Tasks :
             /\ t1 # t2
             /\ tk[t1].sent = <<FolderA, tk[t1].name>>
             /\ tk[t2].found = {FolderA}
             /\ tk[t2].sent = <<tk[t2].name>>

C14_Witness ==
  /\ tk["t1"].name = FolderAB /\ tk["t2"].name = FolderAC
  /\ serverDelim = "/" /\ folders0 = {} /\ faults = 0
  /\ \A t \in Tasks : tk[t].pc = "done" /\ tk[t].created
  /\ tk["t1"].found = {FolderA}

\* the proper prefixes of a name that end before a delimiter, shortest first
ProperPrefixes(name, d) ==
  LET at == {i \in 1..Len(name) : name[i] = d}
      nth(n) == CHOOSE i \in at : Cardinality({j \in at : j < i}) = n - 1
  IN [n \in 1..Cardinality(at) |-> SubSeq(name, 1, nth(n) - 1)]

IsPrefixOf(a, b) == Len(a) <= Len(b) /\ a = SubSeq(b, 1, Len(a))

C15_StateOfTask(t) ==
  LET r == tk[t]
      pp == ProperPrefixes(r.name, serverDelim)
  IN /\ IsPrefixOf(r.checked, <<r.name>> \o pp)
     /\ \E m \in 0..Len(r.sent) :
          /\ \A i \in 1..m : r.sent[i] \in Range(pp)
          /\ \A i \in (m + 1)..Len(r.sent) : r.sent[i] = r.name
          /\ \A i, j \in 1..m : i < j => Len(r.sent[i]) <= Len(r.sent[j])
     /\ r.created => /\ r.err = "nil"
                     /\ Range(pp) \cup {r.name} \subseteq folders
     /\ (r.pc = "done" /\ r.k \in 1..Len(pp))
          => r.err # "nil" /\ ~r.created /\ r.name \notin Range(r.sent)
     /\ pp = <<>> => /\ Range(r.checked) \subseteq {r.name}
                     /\ Range(r.sent) \subseteq {r.name}

C15_CreateStep ==
  \A t \in Tasks :
    tk'[t].sent # tk[t].sent
      => Range(ProperPrefixes(tk[t].cur, serverDelim)) \subseteq folders

\* C15: CreateMailbox checks the folder, then ensures its proper prefixes in
\* order of increasing depth, then creates the folder; no CREATE of a path is
\* sent before every proper prefix of the path exists; when a prefix cannot be
\* checked or created the folder is not created and an error is returned; a
\* folder of one component has no parents to ensure.
C15_ParentsFirst ==
  /\ [](\A t \in Tasks : C15_StateOfTask(t))
  /\ [][C15_CreateStep]_vars

C15_Witness ==
  \E t \in Tasks :
    /\ tk[t].name = FolderABC
    /\ tk[t].created
    /\ tk[t].sent = <<FolderA, FolderAB, FolderABC>>
    /\ tk[t].checked = <<FolderABC, FolderA, FolderAB>>

\* ------------------------------------------------------------ config.New

maxWorkers == 10
defaultWorkers == 1
mailboxChanBuffer == 10

\* config.New: "Validate and set worker count"
Workers(workers) ==
  IF workers = 0 \/ workers > maxWorkers THEN defaultWorkers ELSE workers

\* the required fields, in the order validate tests them, and its errors
RequiredFields ==
  <<"src.server", "src.user", "src.pass", "dst.server", "dst.user", "dst.pass">>
RequiredMessages ==
  <<"source server is required", "source user is required",
    "source password is required", "destination server is required",
    "destination user is required", "destination password is required">>

\* a validation of the source account only
validateSourceOnly(c) ==
  LET empty == {k \in 1..3 : c[RequiredFields[k]] = ""}
  IN IF empty = {} THEN "nil"
     ELSE RequiredMessages[CHOOSE k \in empty : \A j \in empty : k <= j]

\* Config.validate
validate(c) ==
  LET empty == {k \in 1..Len(RequiredFields) : c[RequiredFields[k]] = ""}
  IN IF empty = {} THEN "nil"
     ELSE RequiredMessages[CHOOSE k \in empty : \A j \in empty : k <= j]

ConfigOff ==
  /\ required = <<>>
  /\ newErr = "nil"
  /\ workersFlag = 0
  /\ cfgWorkers = 0
  /\ nActive = 0
  /\ loopAt = 0
  /\ cfgPc = "off"

ConfigInit ==
  /\ workersFlag \in (0 - MaxFlag)..MaxFlag
  /\ cfgWorkers = 0
  /\ nActive \in 1..MaxActive
  /\ loopAt = 0
  /\ cfgPc = "flag"
  /\ required \in [{RequiredFields[k] : k \in 1..Len(RequiredFields)} -> {"", "x"}]
  /\ newErr = "nil"

\* config.New
ConfigNew ==
  /\ cfgPc = "flag"
  /\ cfgWorkers' = Workers(workersFlag)
  /\ newErr' = validate(required)
  /\ cfgPc' = IF newErr' = "nil" THEN "cfg" ELSE "invalid"
  /\ UNCHANGED <<workersFlag, nActive, loopAt, required, nonConfig>>

\* ActionSync: chunkSize := cfg.Workers; chunkStart := 0
LoopEnter ==
  /\ cfgPc = "cfg"
  /\ cfgPc' = "loop"
  /\ UNCHANGED <<workersFlag, cfgWorkers, nActive, loopAt, required, newErr, nonConfig>>

\* one turn of the chunk loop: activePlans[chunkStart:chunkEnd] panics when
\* chunkEnd < chunkStart, else chunkStart += chunkSize
LoopChunk ==
  /\ cfgPc = "loop"
  /\ IF loopAt >= nActive
       THEN cfgPc' = "done" /\ UNCHANGED loopAt
       ELSE IF Min(loopAt + cfgWorkers, nActive) < loopAt
         THEN cfgPc' = "panic" /\ UNCHANGED loopAt
         ELSE loopAt' = loopAt + cfgWorkers /\ UNCHANGED cfgPc
  /\ UNCHANGED <<workersFlag, cfgWorkers, nActive, required, newErr, nonConfig>>

ConfigNext == ConfigNew \/ LoopEnter \/ LoopChunk

\* C17 as stated: whatever the integer given as the workers option, the
\* worker count the executor uses as chunk size is at least 1 and at most 10.
C17_WorkersInRange ==
  cfgPc \in {"cfg", "loop", "done", "panic"}
    => 1 <= cfgWorkers /\ cfgWorkers <= maxWorkers

\* C35: config.New's validation fails exactly when one of the six required
\* fields is empty, with the error of the first empty one in the order
\* src.server, src.user, src.pass, dst.server, dst.user, dst.pass.
C35_FirstEmptyFieldNamed ==
  cfgPc # "flag" =>
    /\ (newErr = "nil" <=> \A f \in DOMAIN required : required[f] # "")
    /\ (newErr = "nil" <=> cfgPc # "invalid")
    /\ required["src.server"] = "" => newErr = "source server is required"
    /\ (required["src.server"] # "" /\ required["src.user"] = "")
         => newErr = "source user is required"
    /\ (required["src.server"] # "" /\ required["src.user"] # "" /\ required["src.pass"] = "")
         => newErr = "source password is required"
    /\ (\A f \in {"src.server", "src.user", "src.pass"} : required[f] # "")
         => /\ required["dst.server"] = "" => newErr = "destination server is required"
            /\ (required["dst.server"] # "" /\ required["dst.user"] = "")
                 => newErr = "destination user is required"
            /\ (required["dst.server"] # "" /\ required["dst.user"] # ""
                  /\ required["dst.pass"] = "")
                 => newErr = "destination password is required"

C35_Witness ==
  /\ cfgPc = "invalid"
  /\ newErr = "destination user is required"
  /\ required["dst.user"] = "" /\ required["dst.pass"] = ""

\* every CreateMailbox call returned
AllReturned == \A t \in Tasks : tk[t].pc = "done"

\* a task that has not returned and does not wait for a lock somebody holds
Runnable(t) ==
  /\ tk[t].pc # "done"
  /\ tk[t].pc = "lock" => LockKey(t, tk[t].cur) \notin heldLocks

C37_LockDiscipline ==
  /\ heldLocks = UNION {tk[t].locked : t \in Tasks}
  /\ \A t1, t2 \in Tasks : t1 # t2 => tk[t1].locked \cap tk[t2].locked = {}
  /\ \A t \in Tasks :
       /\ tk[t].locked \subseteq {LockKey(t, tk[t].name), LockKey(t, tk[t].cur)}
       /\ (tk[t].pc # "done" /\ ~(tk[t].pc = "lock" /\ tk[t].k = 0))
            => LockKey(t, tk[t].name) \in tk[t].locked
       /\ tk[t].pc = "lock" =>
            /\ LockKey(t, tk[t].cur) \notin tk[t].locked
            /\ tk[t].k >= 1 => /\ tk[t].locked = {LockKey(t, tk[t].name)}
                               /\ IsPrefixOf(tk[t].cur, tk[t].name)
                               /\ tk[t].cur # tk[t].name
       /\ tk[t].pc = "done" => tk[t].locked = {}
  /\ ~AllReturned => \E t \in Tasks : Runnable(t)

\* C37: tasks that create folders concurrently never deadlock on the folder
\* locks: a task holds the lock of its own folder while it takes the locks of
\* the proper prefixes one at a time, never asks for a lock it holds, some
\* task can always go on, and every call returns with every lock released,
\* on the error paths too.
C37_NoDeadlockAllReturn ==
  /\ []C37_LockDiscipline
  /\ <>[](AllReturned /\ heldLocks = {})

C37_Witness ==
  /\ tk["t1"].name = FolderABC
  /\ tk["t1"].locked = {FolderABC, FolderAB}
  /\ tk["t2"].name = FolderAB
  /\ tk["t2"].pc = "lock"
  /\ faults > 0

\* ------------------------------------------------------ the specifications

\* ------------------------------------------ one mapping, message by message
\* buildSyncPlan and syncFolders on one mapping, with the folders given
\* message by message.
Headers == {NoEnvelope, NoId, OnlyBrackets, A1, A2, B1}
DstBoxes == {<<>>, <<A2>>, <<B1>>}
BoxesUpTo(n) == UNION {[1..k -> Headers] : k \in 0..n}

FetchOff ==
  /\ srcMsgs = <<>>
  /\ dstMsgs = <<>>
  /\ fetchPc = "off"
  /\ srcMessageIDs = {}
  /\ dstMessageIDs = {}
  /\ newIDs = {}
  /\ messagesToSync = <<>>
  /\ newMessages = 0
  /\ totalNew = 0
  /\ appended = <<>>
  /\ syncedCount = 0
  /\ stored = <<>>
  /\ errorCount = 0

FetchInit ==
  /\ srcMsgs \in BoxesUpTo(MaxBox)
  /\ dstMsgs \in DstBoxes
  /\ fetchPc = "ids"
  /\ srcMessageIDs = {}
  /\ dstMessageIDs = {}
  /\ newIDs = {}
  /\ messagesToSync = <<>>
  /\ newMessages = 0
  /\ totalNew = 0
  /\ appended = <<>>
  /\ syncedCount = 0
  /\ stored = <<>>
  /\ errorCount = 0

\* buildSyncPlan: the two FetchMessageIDs calls and wg.Wait(); a failed
\* source fetch skips the mapping
FetchBothIDs ==
  /\ fetchPc = "ids"
  /\ \E so \in {"ok", "fail"}, do \in {"ok", "fail"} :
       /\ dstMessageIDs' = DstIDs(do, dstMsgs)
       /\ IF so = "ok"
            THEN srcMessageIDs' = MessageIDs(srcMsgs) /\ fetchPc' = "diff"
            ELSE srcMessageIDs' = {} /\ fetchPc' = "skipped"
  /\ UNCHANGED <<srcMsgs, dstMsgs, newIDs, messagesToSync, newMessages, totalNew,
                 appended, stored, syncedCount, errorCount>>
  /\ UNCHANGED nonFetch

\* buildSyncPlan: newIDs, and "if len(newIDs) == 0 { continue }"
FetchDiff ==
  /\ fetchPc = "diff"
  /\ newIDs' = NewIDs(srcMessageIDs, dstMessageIDs)
  /\ fetchPc' = IF newIDs' = {} THEN "done" ELSE "bodies"
  /\ UNCHANGED <<srcMsgs, dstMsgs, srcMessageIDs, dstMessageIDs, messagesToSync,
                 newMessages, totalNew, appended, stored, syncedCount, errorCount>>
  /\ UNCHANGED nonFetch

\* buildSyncPlan: FetchMessagesByIDs and the plan made of its result
FetchBodies ==
  /\ fetchPc = "bodies"
  /\ \E bo \in {"ok", "fail"} :
       IF BodyFetchFailed(bo)
         THEN /\ fetchPc' = "failed"
              /\ UNCHANGED <<messagesToSync, newMessages, totalNew>>
         ELSE LET got == FetchMessagesByIDs(srcMsgs, newIDs)
              IN /\ IF Len(got) > 0
                      THEN /\ messagesToSync' = got
                           /\ newMessages' = Len(got)
                           /\ totalNew' = totalNew + Len(got)
                           /\ fetchPc' = "append"
                      ELSE /\ fetchPc' = "done"
                           /\ UNCHANGED <<messagesToSync, newMessages, totalNew>>
  /\ UNCHANGED <<srcMsgs, dstMsgs, srcMessageIDs, dstMessageIDs, newIDs,
                 appended, stored, syncedCount, errorCount>>
  /\ UNCHANGED nonFetch

\* how one APPEND command can end: OK, refused, or the connection lost
\* before or after the server stored the message
AppendAnswers == {"OK", "NO", "EOF", "EOF-done"}

\* the ways of one safeCall of APPEND: fn(), and after a connection error
\* Reconnect and, when it succeeds, fn() once more
SafeCalls ==
  {[first |-> a, reconnect |-> "none", second |-> "none"] : a \in {"OK", "NO"}}
    \cup {[first |-> a, reconnect |-> "failed", second |-> "none"] : a \in {"EOF", "EOF-done"}}
    \cup {[first |-> a, reconnect |-> "ok", second |-> b] :
            a \in {"EOF", "EOF-done"}, b \in AppendAnswers}

\* safeCall returned nil
SafeCallOk(call) == call.first = "OK" \/ call.second = "OK"

\* the copies of the message the server stored during the safeCall
CopiesStored(call) ==
  (IF call.first \in {"OK", "EOF-done"} THEN 1 ELSE 0)
    + (IF call.second \in {"OK", "EOF-done"} THEN 1 ELSE 0)

\* syncFolders: one turn of the loop over plan.MessagesToSync
FetchAppend ==
  /\ fetchPc = "append"
  /\ Len(appended) < Len(messagesToSync)
  /\ \E call \in SafeCalls :
       /\ appended' = Append(appended, messagesToSync[Len(appended) + 1])
       /\ stored' = Append(stored, CopiesStored(call))
       /\ syncedCount' = IF SafeCallOk(call) THEN syncedCount + 1 ELSE syncedCount
       /\ errorCount' = IF SafeCallOk(call) THEN errorCount ELSE errorCount + 1
  /\ fetchPc' = IF Len(appended') = Len(messagesToSync) THEN "done" ELSE "append"
  /\ UNCHANGED <<srcMsgs, dstMsgs, srcMessageIDs, dstMessageIDs, newIDs,
                 messagesToSync, newMessages, totalNew>>
  /\ UNCHANGED nonFetch

FetchNext == FetchBothIDs \/ FetchDiff \/ FetchBodies \/ FetchAppend

\* the plan of the mapping is made
Planned == fetchPc \in {"append", "done"} /\ messagesToSync # <<>>

\* C29: a plan holds no two messages with the same Message-ID, and TotalNew
\* is the number of distinct Message-IDs to copy.
C29_OneEntryPerMessageID ==
  Planned =>
    /\ \A i, j \in 1..Len(messagesToSync) :
         i # j => Trim(messagesToSync[i]) # Trim(messagesToSync[j])
    /\ newMessages = Cardinality(newIDs)
    /\ totalNew = Cardinality(newIDs)

\* a message with a usable Message-ID, said without the fetch's own test
Identified(m) == m # NoEnvelope /\ Trim(m) # <<>>
IdentifiedIDs(box) == {Trim(box[k]) : k \in {j \in 1..Len(box) : Identified(box[j])}}

\* C30: a message without an envelope, or whose Message-ID is empty once the
\* brackets are stripped, adds nothing to the fetched ids or to newIDs, is in
\* no plan and is never handed to APPEND; ids are compared stripped.
C30_UnidentifiedNeverCopied ==
  /\ fetchPc \notin {"ids", "skipped"} => srcMessageIDs = IdentifiedIDs(srcMsgs)
  /\ dstMessageIDs \in {{}, IdentifiedIDs(dstMsgs)}
  /\ <<>> \notin srcMessageIDs \cup dstMessageIDs \cup newIDs
  /\ newIDs \subseteq IdentifiedIDs(srcMsgs)
  /\ fetchPc \notin {"ids", "skipped", "diff"}
       => newIDs = IdentifiedIDs(srcMsgs) \ dstMessageIDs
  /\ \A k \in 1..Len(messagesToSync) : Identified(messagesToSync[k])
  /\ \A k \in 1..Len(appended) :
       Identified(appended[k]) /\ Trim(appended[k]) \in newIDs

\* C40: one run stores each planned message at most once in its destination
\* folder, also when the connection drops during the APPEND and the APPEND
\* is sent again after the reconnect.
C40_StoredAtMostOnce == \A k \in 1..Len(stored) : stored[k] <= 1

C30_Witness ==
  /\ fetchPc = "done"
  /\ srcMsgs = <<NoEnvelope, OnlyBrackets, B1>>
  /\ dstMsgs = <<A2>>
  /\ dstMessageIDs = {<<"a">>}
  /\ appended = <<B1>>
  /\ stored = <<1>>

\* ------------------------------------------------- folder paths and delimiters
\* A path is the sequence of its characters.
PathChars == {"/", ".", "\\", "a"}
PathsUpTo(n) == UNION {[1..k -> PathChars] : k \in 0..n}
DstPaths == {<<"a">>, <<"a", "/", "a">>, <<"a", ".", "a">>, <<".", "\\", "a">>}
\* a server's hierarchy delimiter, "" when validateFolderPath is given none
ServerDelimiters == {"", "/", ".", "\\", "|"}

commonDelimiters == <<"/", ".", "\\">>

\* a validation that accepted every path
validateFolderPathAny(folderPath, serverDelimiter) == TRUE

\* validateFolderPath
validateFolderPath(folderPath, serverDelimiter) ==
  IF serverDelimiter = "" THEN TRUE
  ELSE \A k \in 1..Len(commonDelimiters) :
         ~(commonDelimiters[k] # serverDelimiter /\ Contains(folderPath, commonDelimiters[k]))

\* detectDelimiter: the first of the common delimiters the path contains
detectDelimiter(folderPath) ==
  LET found == {k \in 1..Len(commonDelimiters) : Contains(folderPath, commonDelimiters[k])}
  IN IF found = {} THEN "none"
     ELSE commonDelimiters[CHOOSE k \in found : \A j \in found : k <= j]

\* a rewrite that dropped the old delimiter
ReplaceAllByNothing(str, old, new) == SelectSeq(str, LAMBDA c : c # old)

\* strings.ReplaceAll(s, old, new), old and new of one character
ReplaceAll(str, old, new) == [i \in 1..Len(str) |-> IF str[i] = old THEN new ELSE str[i]]

\* ActionSync's fix of one path: the delimiter detected is replaced by the server's
FixPath(folderPath, serverDelimiter) ==
  LET oldDelim == detectDelimiter(folderPath)
  IN IF serverDelimiter # "" /\ oldDelim # "none" /\ oldDelim # serverDelimiter
       THEN ReplaceAll(folderPath, oldDelim, serverDelimiter)
       ELSE folderPath

PathOff ==
  /\ mappings = <<>>
  /\ srcDelimiter = ""
  /\ dstDelimiter = ""
  /\ needsFix = FALSE
  /\ shouldFix = FALSE
  /\ valid = "none"
  /\ rewritten = "none"
  /\ pathPc = "off"

PathInit ==
  /\ mappings \in {<<[src |-> a, dst |-> b]>> : a \in PathsUpTo(MaxPath), b \in DstPaths}
  /\ srcDelimiter \in ServerDelimiters
  /\ dstDelimiter \in ServerDelimiters \ {""}
  /\ needsFix = FALSE
  /\ shouldFix = FALSE
  /\ valid = "none"
  /\ rewritten = "none"
  /\ pathPc = "start"

\* a call validateFolderPath(folderPath, serverDelimiter)
CallValidate ==
  /\ pathPc = "start"
  /\ valid' = validateFolderPath(mappings[1].src, srcDelimiter)
  /\ pathPc' = "called"
  /\ UNCHANGED <<mappings, srcDelimiter, dstDelimiter, needsFix, shouldFix, rewritten>>
  /\ UNCHANGED nonPath

\* a path rewritten from "/" to "." and from "." back to "/"
CallRewrite ==
  /\ pathPc = "start"
  /\ rewritten' = ReplaceAll(ReplaceAll(mappings[1].src, "/", "."), ".", "/")
  /\ pathPc' = "rewritten"
  /\ UNCHANGED <<mappings, srcDelimiter, dstDelimiter, needsFix, shouldFix, valid>>
  /\ UNCHANGED nonPath

\* ActionSync: "Validate folder paths compatibility with server delimiters";
\* the delimiters are those of GetDelimiter, which are never empty
ValidateMappings ==
  /\ pathPc = "start"
  /\ srcDelimiter # ""
  /\ needsFix' = \E i \in 1..Len(mappings) :
                   \/ srcDelimiter # "" /\ ~validateFolderPath(mappings[i].src, srcDelimiter)
                   \/ dstDelimiter # "" /\ ~validateFolderPath(mappings[i].dst, dstDelimiter)
  /\ pathPc' = IF needsFix' THEN "ask" ELSE "kept"
  /\ UNCHANGED <<mappings, srcDelimiter, dstDelimiter, shouldFix, valid, rewritten>>
  /\ UNCHANGED nonPath

\* ActionSync: "if needsFix": auto-confirm or the answer of AskConfirm, and
\* the fix of every mapping
FixDelimiters(answer) ==
  /\ pathPc = "ask"
  /\ IF answer \in {"canceled", "error"}
       THEN pathPc' = "returned" /\ UNCHANGED <<mappings, shouldFix>>
       ELSE /\ shouldFix' = (answer \in {"auto", "yes"})
            /\ mappings' = IF shouldFix'
                             THEN [i \in 1..Len(mappings) |->
                                     [src |-> FixPath(mappings[i].src, srcDelimiter),
                                      dst |-> FixPath(mappings[i].dst, dstDelimiter)]]
                             ELSE mappings
            /\ pathPc' = IF shouldFix' THEN "fixed" ELSE "kept"
  /\ UNCHANGED <<srcDelimiter, dstDelimiter, needsFix, valid, rewritten>>
  /\ UNCHANGED nonPath

PathNext ==
  \/ CallValidate
  \/ CallRewrite
  \/ ValidateMappings
  \/ \E answer \in {"auto", "yes", "no", "error", "canceled"} : FixDelimiters(answer)

\* the path holds a common delimiter that is not the server's
HoldsOther(folderPath, serverDelimiter) ==
  \E c \in {"/", ".", "\\"} : c # serverDelimiter /\ Contains(folderPath, c)

\* C32 as stated: validate_path is true exactly when the path holds none of
\* "/", ".", "\" other than the server's delimiter, whatever the delimiter.
C32_ValidIffNoOther ==
  pathPc = "called" => (valid <=> ~HoldsOther(mappings[1].src, srcDelimiter))

\* C32: validateFolderPath is true exactly when the server's delimiter is
\* empty or the path holds none of "/", ".", "\" other than that delimiter.
C32_ValidIffNoOtherOrNoDelimiter ==
  pathPc = "called"
    => (valid <=> (srcDelimiter = "" \/ ~HoldsOther(mappings[1].src, srcDelimiter)))

C32_Witness ==
  /\ pathPc = "called"
  /\ srcDelimiter = "."
  /\ mappings[1].src = <<"a", ".", "a">>
  /\ valid = TRUE

\* C33: a path without "." rewritten from "/" to "." and back is the path.
C33_RewriteSelfInverse ==
  (pathPc = "rewritten" /\ ~Contains(mappings[1].src, ".")) => rewritten = mappings[1].src

C33_Witness ==
  /\ pathPc = "rewritten"
  /\ mappings[1].src = <<"/", "a", "/">>
  /\ rewritten = mappings[1].src

\* C39: once the delimiter fix is applied every source path is valid for the
\* source delimiter and every destination path for the destination delimiter.
C39_FixedPathsValid ==
  pathPc = "fixed" =>
    \A i \in 1..Len(mappings) :
      /\ ~HoldsOther(mappings[i].src, srcDelimiter)
      /\ ~HoldsOther(mappings[i].dst, dstDelimiter)

\* ------------------------------------------------ expansion to the subfolders
\* the mappings given to expandMappingsWithSubfolders, for a source delimiter
\* sd and a destination delimiter dd
ExpandInputs(sd, dd) ==
  LET top == [src |-> <<"a">>, dst |-> <<"a">>]
      sub == [src |-> <<"a", sd, "a">>, dst |-> <<"a", dd, "a", dd, "a">>]
  IN {<<top>>, <<top, sub>>, <<sub, top>>}

\* the names a server can answer to LIST "" folder + delimiter + "*"
NamesBelow(folder, sd) ==
  {folder \o <<sd>>, folder \o <<sd, "a">>, folder \o <<sd, "a", sd, "a">>}
ListedNames(folder, sd) ==
  {<<>>} \cup {<<n>> : n \in NamesBelow(folder, sd)}
         \cup {q \in NamesBelow(folder, sd) \X NamesBelow(folder, sd) : q[1] # q[2]}
\* how getSubfolders can end for a folder, or the context be found cancelled
ListOutcomes(folder, sd) ==
  {[kind |-> "canceled", names |-> <<>>], [kind |-> "error", names |-> <<>>]}
    \cup {[kind |-> "ok", names |-> q] : q \in ListedNames(folder, sd)}

\* a TrimPrefix that left the name whole
TrimPrefixNever(str, prefix) == str

\* strings.TrimPrefix(s, prefix)
TrimPrefix(str, prefix) ==
  IF Len(prefix) <= Len(str) /\ SubSeq(str, 1, Len(prefix)) = prefix
    THEN SubSeq(str, Len(prefix) + 1, Len(str))
    ELSE str

\* getSubfolders: the names listed, the folder itself left out
Subfolders(answer, folder) == SelectSeq(answer, LAMBDA n : n # folder)

\* expandMappingsWithSubfolders: the destination path of one subfolder
DstPathOf(mapping, subfolder, sd, dd) ==
  LET relativePath == IF sd # "" THEN TrimPrefix(subfolder, mapping.src \o <<sd>>)
                                 ELSE TrimPrefix(subfolder, mapping.src)
  IN IF dd # "" /\ relativePath # <<>>
       THEN mapping.dst \o <<dd>>
              \o (IF sd # "" /\ sd # dd THEN ReplaceAll(relativePath, sd, dd) ELSE relativePath)
       ELSE mapping.dst

ExpandOff ==
  /\ expanded = <<>>
  /\ expandAt = 0
  /\ listed = <<>>
  /\ expandPc = "off"

ExpandInit ==
  /\ srcDelimiter \in {"/", "."}
  /\ dstDelimiter \in {"/", "."}
  /\ mappings \in ExpandInputs(srcDelimiter, dstDelimiter)
  /\ needsFix = FALSE
  /\ shouldFix = FALSE
  /\ valid = "none"
  /\ rewritten = "none"
  /\ pathPc = "expand"
  /\ expanded = <<>>
  /\ expandAt = 1
  /\ listed = <<>>
  /\ expandPc = "loop"

\* one turn of the loop over the mappings: the mapping itself, then one
\* mapping per subfolder; a failed listing keeps the mapping alone
ExpandMapping(o) ==
  /\ expandPc = "loop"
  /\ LET mapping == mappings[expandAt]
     IN IF o.kind = "canceled"
          THEN expandPc' = "canceled" /\ expanded' = <<>> /\ UNCHANGED <<expandAt, listed>>
          ELSE /\ listed' = Append(listed, o)
               /\ expanded' =
                    IF o.kind = "error" THEN Append(expanded, mapping)
                    ELSE LET subfolders == Subfolders(o.names, mapping.src)
                         IN Append(expanded, mapping)
                              \o [k \in 1..Len(subfolders) |->
                                    [src |-> subfolders[k],
                                     dst |-> DstPathOf(mapping, subfolders[k],
                                                       srcDelimiter, dstDelimiter)]]
               /\ expandAt' = expandAt + 1
               /\ expandPc' = IF expandAt' > Len(mappings) THEN "done" ELSE "loop"
  /\ UNCHANGED <<pathVars, nonExpand>>

ExpandNext ==
  \E i \in 1..Len(mappings) :
    \E o \in ListOutcomes(mappings[i].src, srcDelimiter) :
      expandAt = i /\ ExpandMapping(o)

\* the suffix of a subfolder below its source folder, in the destination's delimiter
C34_Suffix(m, subfolder) ==
  LET rest == SubSeq(subfolder, Len(m.src) + 2, Len(subfolder))
  IN [i \in 1..Len(rest) |-> IF rest[i] = srcDelimiter THEN dstDelimiter ELSE rest[i]]

\* what the expansion of the k-th mapping is to be; bare tells whether a
\* subfolder with an empty suffix goes to the destination folder itself
C34_Part(k, bare) ==
  LET m == mappings[k]
      names == listed[k].names
  IN IF listed[k].kind = "error" THEN <<m>>
     ELSE <<m>> \o [i \in 1..Len(names) |->
                     [src |-> names[i],
                      dst |-> IF bare /\ C34_Suffix(m, names[i]) = <<>>
                                THEN m.dst
                                ELSE m.dst \o <<dstDelimiter>>
                                       \o C34_Suffix(m, names[i])]]

RECURSIVE C34_Whole(_, _)
C34_Whole(k, bare) == IF k = 0 THEN <<>> ELSE C34_Whole(k - 1, bare) \o C34_Part(k, bare)

\* C34 as stated: the expansion is, mapping by mapping, the mapping and one
\* mapping (subfolder, dst + dst_delim + suffix') per listed subfolder, and a
\* failed listing never ends the expansion.
C34_ExpandedAsStated ==
  /\ expandPc # "canceled"
  /\ expandPc = "done" => expanded = C34_Whole(Len(mappings), FALSE)

\* C34: an expansion that is not cancelled returns, mapping by mapping, the
\* mapping and one mapping per listed subfolder, to dst + dst_delim + suffix'
\* or to dst itself when the suffix is empty; a failed listing keeps the
\* mapping alone and the expansion goes on; a cancelled one returns no mapping.
C34_Expanded ==
  /\ expandPc = "done" => /\ Len(listed) = Len(mappings)
                          /\ expanded = C34_Whole(Len(mappings), TRUE)
  /\ expandPc = "canceled" => expanded = <<>>
  /\ expandPc = "loop" => /\ Len(listed) = expandAt - 1
                          /\ expanded = C34_Whole(expandAt - 1, TRUE)

C34_Witness ==
  /\ expandPc = "done"
  /\ srcDelimiter = "." /\ dstDelimiter = "/"
  /\ Len(mappings) = 2
  /\ listed[1].kind = "error"
  /\ listed[2] = [kind |-> "ok", names |-> <<<<"a", ".", "a", ".", "a", ".", "a">>>>]
  /\ expanded[3].dst = <<"a", "/", "a", "/", "a", "/", "a", "/", "a">>

\* ------------------------------------------- LIST through a bounded channel
\* mailboxExists and getDelimiter: a goroutine runs c.List, which sends every
\* mailbox of the answer on the channel and closes it when it returns; the
\* caller ranges over the channel, may break, and then receives from done.

\* make(chan *imap.MailboxInfo, 1) of getDelimiter
delimiterChanBuffer == 1

\* the buffer of the channel the call made
ChanBuffer(for) == IF for = "exists" THEN mailboxChanBuffer ELSE delimiterChanBuffer

ListOff ==
  /\ listFor = "off"
  /\ listCount = 0
  /\ listSent = 0
  /\ mailboxes = 0
  /\ listGo = "off"
  /\ listDone = "empty"
  /\ listCaller = "off"

ListInit ==
  /\ listFor \in {"exists", "delimiter"}
  /\ listCount \in 0..MaxMailboxes
  /\ listSent = 0
  /\ mailboxes = 0
  /\ listGo = "sending"
  /\ listDone = "empty"
  /\ listCaller = "reading"

\* c.List: one mailbox sent on the channel; the send waits while the buffer
\* is full
ListSend ==
  /\ listGo = "sending"
  /\ listSent < listCount
  /\ mailboxes < ChanBuffer(listFor)
  /\ listSent' = listSent + 1
  /\ mailboxes' = mailboxes + 1
  /\ UNCHANGED <<listFor, listCount, listGo, listDone, listCaller, nonList>>

\* c.List returns, after the last mailbox or with an error before: the
\* channel is closed and the result goes to done, which has room for it
ListReturn(err) ==
  /\ listGo = "sending"
  /\ mailboxes < ChanBuffer(listFor) \/ listSent = listCount
  /\ err = "nil" => listSent = listCount
  /\ listGo' = "finished"
  /\ listDone' = err
  /\ UNCHANGED <<listFor, listCount, listSent, mailboxes, listCaller, nonList>>

\* the caller's range loop receives a mailbox: mailboxExists breaks at once,
\* getDelimiter breaks when the mailbox carries a delimiter
CallerReceive(hasDelimiter) ==
  /\ listCaller = "reading"
  /\ mailboxes > 0
  /\ mailboxes' = mailboxes - 1
  /\ listCaller' = IF listFor = "exists" \/ hasDelimiter THEN "waiting" ELSE "reading"
  /\ UNCHANGED <<listFor, listCount, listSent, listGo, listDone, nonList>>

\* the range loop ends on the closed and empty channel
CallerSeesClosed ==
  /\ listCaller = "reading"
  /\ mailboxes = 0
  /\ listGo = "finished"
  /\ listCaller' = "waiting"
  /\ UNCHANGED <<listFor, listCount, listSent, mailboxes, listGo, listDone, nonList>>

\* err := <-done
CallerReceivesDone ==
  /\ listCaller = "waiting"
  /\ listDone # "empty"
  /\ listCaller' = "returned"
  /\ UNCHANGED <<listFor, listCount, listSent, mailboxes, listGo, listDone, nonList>>

ListNext ==
  \/ ListSend
  \/ \E err \in {"nil", "error"} : ListReturn(err)
  \/ \E hasDelimiter \in BOOLEAN : CallerReceive(hasDelimiter)
  \/ CallerSeesClosed
  \/ CallerReceivesDone

\* C38: whatever the number of mailboxes the server returns, the goroutine
\* that runs LIST completes and the caller receives its completion, also
\* when the caller stops reading after the first mailbox.
C38_ListTerminates == <>(listGo = "finished" /\ listCaller = "returned")

Init == SessInit /\ SyncOff /\ OpenOff /\ CreateOff /\ ConfigOff /\ FetchOff /\ PathOff /\ ExpandOff /\ ListOff
Next == SessNext
Spec == Init /\ [][Next]_vars

InitSync == SessInit /\ SyncInit /\ OpenOff /\ CreateOff /\ ConfigOff /\ FetchOff /\ PathOff /\ ExpandOff /\ ListOff
SyncSpec == InitSync /\ [][SyncNext]_vars

InitOpen == SessInit /\ SyncOff /\ OpenInit /\ CreateOff /\ ConfigOff /\ FetchOff /\ PathOff /\ ExpandOff /\ ListOff
OpenSpec == InitOpen /\ [][OpenNext]_vars

InitCreate == SessInit /\ SyncOff /\ OpenOff /\ CreateInit /\ ConfigOff /\ FetchOff /\ PathOff /\ ExpandOff /\ ListOff
CreateSpec == InitCreate /\ [][CreateNext]_vars
\* every goroutine that can go on is scheduled, and every IMAP call returns
CreateFairSpec == CreateSpec /\ WF_vars(CreateNext)

InitConfig == SessInit /\ SyncOff /\ OpenOff /\ CreateOff /\ ConfigInit /\ FetchOff /\ PathOff /\ ExpandOff /\ ListOff
ConfigSpec == InitConfig /\ [][ConfigNext]_vars

InitFetch == SessInit /\ SyncOff /\ OpenOff /\ CreateOff /\ ConfigOff /\ FetchInit /\ PathOff /\ ExpandOff /\ ListOff
FetchSpec == InitFetch /\ [][FetchNext]_vars

InitPath == SessInit /\ SyncOff /\ OpenOff /\ CreateOff /\ ConfigOff /\ FetchOff /\ PathInit /\ ExpandOff /\ ListOff
PathSpec == InitPath /\ [][PathNext]_vars

InitExpand == SessInit /\ SyncOff /\ OpenOff /\ CreateOff /\ ConfigOff /\ FetchOff /\ ExpandInit /\ ListOff
ExpandSpec == InitExpand /\ [][ExpandNext]_vars

InitList == SessInit /\ SyncOff /\ OpenOff /\ CreateOff /\ ConfigOff /\ FetchOff /\ PathOff
              /\ ExpandOff /\ ListInit
ListSpec == InitList /\ [][ListNext]_vars
\* the goroutine and the caller run whenever they can
ListFairSpec == ListSpec /\ WF_vars(ListNext)

=============================================================================
